---- MODULE Spec2Model ----
(***************************************************************************)
(* The relaunch supervisor of the hot-reload protocol                      *)
(* (src/scripts/relaunch.ts) as a state machine: one relaunch session,     *)
(* from argument parsing to the end of the supervisor process, together    *)
(* with the parts of its environment it observes: the old server and its   *)
(* PID file, the staged package, the managed tree, the status server's     *)
(* socket and clients, and the outcomes of npm and of spawn.               *)
(*                                                                         *)
(* The supervisor is a Node.js script.  main() is called without being     *)
(* awaited, and the script calls process.exit only with status 1, so the   *)
(* process ends in one of three ways: process.exit(1); a rejection that    *)
(* escapes main() (status 1); or, with status 0, when main() can make no   *)
(* further step and no handle (listening server, open connection,          *)
(* pending timer or callback) keeps the event loop alive.  The last is     *)
(* how the success path ends with "exit(0)" (hot-reload.md, line 156).     *)
(*                                                                         *)
(* Spec follows one session step by step.  HandlerSpec follows the         *)
(* request handler of the status server on requests and log files;         *)
(* SessionsSpec follows several supervisors, started by one server         *)
(* generation after another, through the phases of their sessions.         *)
(***************************************************************************)
EXTENDS Naturals, Sequences, FiniteSets, TLC

(***************************************************************************)
(* Bounds of the model                                                     *)
(***************************************************************************)
\* Longest staged package, in records (local headers, directory, junk).
MaxRecords == 2
\* Polls of waitForServerShutdown before its 30 s deadline has passed
\* (30000 / 500 in the program).
MaxPolls == 2
\* Number of distinct digests.
DigestSpace == 2
\* Longest request URL, in parts, and longest log file, in lines, that the
\* status server's request handler is tried on.
MaxUrlParts == 2
MaxLogLines == 2
\* Supervisors that one server generation after another may start.
MaxSupervisors == 2
\* Status responses of one session that are kept for comparison.
MaxServed == 3
\* Runs of the package builder on one source tree.
MaxBuilds == 2
\* Runs of testsvr -spawn that may be in progress together.
MaxSpawns == 2

(***************************************************************************)
(* The staged package.  A zip buffer is a sequence of records; a record    *)
(* is what parseZipInMemory meets at one offset.                           *)
(***************************************************************************)
PkgJson == "package.json"
FileNames == {PkgJson, "a.ts"}

\* A local file header (PK\x03\x04) with its name, method and data bytes.
\* Method 0 is stored, 8 is deflate; "z:v1" are the deflated bytes of "v1",
\* "bad" are bytes that are not what was packed (corrupt or cut short).
FileRecs ==
    { [kind |-> "file", fileName |-> n, method |-> m, data |-> d] :
        n \in FileNames, m \in {"stored", "deflate"}, d \in {"v1", "z:v1", "bad"} }

FileRecords ==
    { r \in FileRecs : \/ r.method = "stored" /\ r.data \in {"v1", "bad"}
                       \/ r.method = "deflate" /\ r.data \in {"z:v1", "bad"} }
      \cup { [kind |-> "file", fileName |-> "a.ts", method |-> "other", data |-> "v1"] }

\* A local header whose name ends with "/".
DirRecord == [kind |-> "dir", fileName |-> "server/", method |-> "stored", data |-> "v1"]
\* PK followed by something else than \x03\x04: the central directory.
CentralRecord == [kind |-> "central", fileName |-> "", method |-> "stored", data |-> "v1"]
\* Bytes that do not start with PK, or fewer than five bytes.
JunkRecord == [kind |-> "junk", fileName |-> "", method |-> "stored", data |-> "v1"]
\* A local header signature with fewer than 30 bytes left in the buffer.
ShortRecord == [kind |-> "short", fileName |-> "", method |-> "stored", data |-> "v1"]

Records == FileRecords \cup {DirRecord, CentralRecord, JunkRecord, ShortRecord}

SeqsUpTo(S, n) == UNION { [1..k -> S] : k \in 0..n }

\* A header cut off by the end of the buffer can only be the last record.
Packages ==
    { b \in SeqsUpTo(Records, MaxRecords) :
        \A i \in 1..Len(b) : b[i].kind = "short" => i = Len(b) }

\* An archive as the package builder produces it: local headers with a
\* supported method and intact data, then the central directory.
WellFormed(buf) ==
    /\ Len(buf) >= 1
    /\ buf[Len(buf)].kind = "central"
    /\ \A i \in 1..(Len(buf) - 1) :
          \/ buf[i].kind = "dir"
          \/ /\ buf[i].kind = "file"
             /\ \/ buf[i].method = "stored" /\ buf[i].data = "v1"
                \/ buf[i].method = "deflate" /\ buf[i].data = "z:v1"

\* crypto.createHash("md5").update(zipBuffer).digest("hex"): a checksum of
\* all the bytes of the buffer, in a digest space of DigestSpace values.
RecordCode(r) ==
    (IF r.kind = "file" THEN 1
     ELSE IF r.kind = "dir" THEN 2
     ELSE IF r.kind = "central" THEN 3
     ELSE IF r.kind = "junk" THEN 4 ELSE 5)
    + (IF r.fileName = PkgJson THEN 1 ELSE 0)
    + (IF r.method = "deflate" THEN 2 ELSE IF r.method = "other" THEN 3 ELSE 0)
    + (IF r.data = "bad" THEN 1 ELSE 0)

RECURSIVE CodeSum(_)
CodeSum(buf) == IF buf = <<>> THEN 0 ELSE RecordCode(Head(buf)) + CodeSum(Tail(buf))

Md5(buf) == CodeSum(buf) % DigestSpace
Digests == 0..(DigestSpace - 1)

\* zlib.inflateRawSync: defined on deflated bytes only, throws otherwise.
CanInflate(d) == d = "z:v1"
InflateRaw(d) == IF d = "z:v1" THEN "v1" ELSE "bad"

\* What parseZipInMemory does with the record at one offset:
\* "break" leaves the loop, "throw" raises, "skip" and "push" go on.
RecordStep(r) ==
    IF r.kind \in {"junk", "central"} THEN "break"
    ELSE IF r.kind = "short" THEN "throw"
    ELSE IF r.kind = "dir" THEN "skip"
    ELSE IF r.method = "stored" THEN "push"
    ELSE IF r.method = "deflate" THEN (IF CanInflate(r.data) THEN "push" ELSE "throw")
    ELSE "throw"

EntryOf(r) ==
    [fileName |-> r.fileName,
     data |-> IF r.method = "stored" THEN r.data ELSE InflateRaw(r.data)]

RECURSIVE ParseLoop(_, _, _)
ParseLoop(buf, offset, entries) ==
    IF offset > Len(buf) THEN [ok |-> TRUE, entries |-> entries]
    ELSE LET step == RecordStep(buf[offset]) IN
         IF step = "break" THEN [ok |-> TRUE, entries |-> entries]
         ELSE IF step = "throw" THEN [ok |-> FALSE, entries |-> <<>>]
         ELSE IF step = "skip" THEN ParseLoop(buf, offset + 1, entries)
         ELSE ParseLoop(buf, offset + 1, Append(entries, EntryOf(buf[offset])))

\* The MD5 gate left out: every buffer passes.
Md5VerifiedMutant(buf, expected) == TRUE

\* The MD5 gate of parseZipInMemory.
Md5Verified(buf, expected) == Md5(buf) = expected

\* parseZipInMemory(zipPath, expectedMd5) on an existing file.
parseZipInMemory(buf, expected) ==
    IF ~Md5Verified(buf, expected) THEN [ok |-> FALSE, entries |-> <<>>]
    ELSE ParseLoop(buf, 1, <<>>)

\* The comparison left out: every package asks for npm install.
packageJsonChangedInZipMutant(entries, disk) == TRUE

\* packageJsonChangedInZip(entries) against the tree on disk.
packageJsonChangedInZip(entries, disk) ==
    LET idx == { i \in 1..Len(entries) : entries[i].fileName = PkgJson } IN
    IF idx = {} THEN FALSE
    ELSE IF disk[PkgJson] = "absent" THEN TRUE
    ELSE LET first == CHOOSE i \in idx : \A j \in idx : i <= j IN
         disk[PkgJson] # entries[first].data

(***************************************************************************)
(* State                                                                   *)
(***************************************************************************)
VARIABLES
    \* the command line and the files the session starts from
    args,                   \* [zipPath, md5, test]: which arguments were given
    expectedMd5,            \* the value of --md5=
    tree0,                  \* the managed tree when the session starts
    \* the environment
    zipExists,              \* whether the staged package is on disk
    zipRead,                \* what parseZipInMemory read from it, once it has
    pidFile,                \* server.pid: "absent", "valid", "garbage", "denied"
    oldAlive,               \* whether the old server process is alive
    tree,                   \* the managed tree: file name -> content
    \* main()
    pc,                     \* the position of main()
    ctx,                    \* "try" or "catch": the block of main() that is running
    polls,                  \* polls made by waitForServerShutdown
    appDirectoryModified,
    entries,                \* the decoded entries
    needsInstall,
    next,                   \* the entry the write loop is at
    successCount,
    failCount,
    wrote,                  \* file names handed to writeFileVerified, in order
    \* the status server
    statusServer,           \* the variable: 0 is null, else a server object
    servers,                \* server objects: "created", "listening", "stopped", "errored"
    conns,                  \* server objects with an open client connection
    closeTimer,             \* whether stopStatusServer's 2 s timer is pending
    closeCb,                \* the server whose close callback is pending, or 0
    \* what the session produced
    exited,                 \* whether the supervisor process has ended
    exitCode,
    spawned,                \* the tree at each successful spawn of the server
    spawnAttempts,          \* calls of spawn("npm", ["start"])
    npmRuns,                \* execSync commands run, in order
    log,                    \* lines appended to the log file
    \* the status server's request handler
    exchange,               \* the last request served, with its response
    served,                 \* the log content of each status response so far
    \* several sessions on one managed tree
    server,                 \* the serving application server and its PID file
    sup,                    \* supervisor -> the phase of its session, its polls
    \* the transfer endpoint of the serving application server
    endpoint,               \* its configuration, staging file and last admission
    \* the package builder
    build,                  \* the builder, its source root and tree, its runs
    \* testsvr, the manager of isolated test servers
    testsvr,                \* directories, PID files, listeners, spawn runs, last command
    \* deploy.js, quick deploy
    deploy,                 \* its position, its clock, the last /ping answer, its report
    \* the destination paths of the write loop
    destPaths               \* the entry names, the loop's position, the paths written

inputs == <<args, expectedMd5, tree0>>
oldSrv == <<pidFile, oldAlive>>
writeV == <<entries, needsInstall, next, successCount, failCount, wrote>>
statusV == <<statusServer, servers, conns, closeTimer, closeCb>>
procV == <<exited, exitCode>>
outV == <<spawned, spawnAttempts, npmRuns>>

handlerV == <<exchange, served>>
sessionsV == <<server, sup>>
toolsV == <<build, testsvr, deploy, destPaths>>
auxV == <<handlerV, sessionsV, endpoint, toolsV>>

\* Everything one session of the supervisor reads and writes.
mainV == <<inputs, zipExists, zipRead, oldSrv, tree, pc, ctx, polls, appDirectoryModified,
           writeV, statusV, procV, outV, log>>

vars == <<inputs, zipExists, zipRead, oldSrv, tree, pc, ctx, polls, appDirectoryModified,
          writeV, statusV, procV, outV, log, auxV>>

Contents == {"v1", "v2", "bad", "partial"}

\* No request has been served yet.
NoExchange ==
    [request |-> <<>>, readable |-> FALSE, response |-> [status |-> 0, body |-> <<>>]]

\* No application server and no supervisor besides the one of the session.
Supervisors == 1..MaxSupervisors
NoServer == [alive |-> FALSE, pid |-> "absent", handedOff |-> FALSE]
NoSessions == [i \in Supervisors |-> [phase |-> "none", polls |-> 0]]

\* Nothing has been read from the staged package yet.
\* testsvr: the port range of test servers, and the ports that commands
\* are given: the first ports of the range, as many as there are spawn runs
\* (no run finds more directories than the other runs made), and one port
\* on either side of the range.
PORT_MIN == 60000
PORT_MAX == 60999
SpawnRuns == 1..MaxSpawns
TestPorts == PORT_MIN..(PORT_MIN + MaxSpawns - 1)
CommandPorts == TestPorts \cup {PORT_MIN - 1, PORT_MAX + 1}
\* Process ids: 0 is none, i the server that spawn run i started, and one
\* more for a process that is not a test server.
ForeignPid == MaxSpawns + 1

NoCommand ==
    [cmd |-> "none", port |-> 0, exit |-> 0, report |-> "", signalled |-> 0,
     deleted |-> FALSE, evidence |-> FALSE, inUse |-> FALSE,
     dirBefore |-> 0, dirAfter |-> 0, listenerAfter |-> 0]
\* No test directory, no listener, no spawn run, no command yet.
NoTestsvr ==
    [dir |-> [p \in CommandPorts |-> 0],
     pidFile |-> [p \in CommandPorts |-> 0],
     listener |-> [p \in CommandPorts |-> 0],
     run |-> [i \in SpawnRuns |-> [phase |-> "idle", port |-> 0]],
     last |-> NoCommand]

\* No write loop over entry names.
NoPaths == [names |-> <<>>, next |-> 1, written |-> {}]

\* Quick deploy has not been started.
NoDeploy ==
    [phase |-> "idle", test |-> FALSE, elapsed |-> 0, answer |-> "none", report |-> ""]

\* The package builder has not been run.
NoBuild == [variant |-> "none", root |-> <<>>, tree |-> {}, runs |-> <<>>]

\* No request has reached the transfer endpoint; nothing is staged.
NoRequest == [auth |-> FALSE, test |-> FALSE, bytes |-> <<>>, digest |-> 0]
NoEndpoint ==
    [enabled |-> TRUE, staging |-> <<>>, request |-> NoRequest, result |-> "none"]

NotRead == [read |-> FALSE, md5 |-> 0, wellFormed |-> FALSE, decoded |-> FALSE]
\* The facts about the bytes that readFileSync(zipPath) returned.
ReadOf(buf) ==
    [read |-> TRUE, md5 |-> Md5(buf), wellFormed |-> WellFormed(buf),
     decoded |-> ParseLoop(buf, 1, <<>>).ok]

(***************************************************************************)
(* Init: the state when the supervisor process starts.  It is started by   *)
(* the transfer endpoint of a running server (alive, with its PID file),   *)
(* or by hand with no server running.                                      *)
(***************************************************************************)
Init ==
    /\ args \in [zipPath : BOOLEAN, md5 : BOOLEAN, test : BOOLEAN]
    /\ expectedMd5 \in Digests
    /\ zipExists \in BOOLEAN
    /\ zipRead = NotRead
    /\ oldAlive \in BOOLEAN
    /\ pidFile \in {"absent", "valid", "garbage", "denied"}
    /\ oldAlive => pidFile # "absent"
    /\ pidFile = "denied" => oldAlive
    /\ tree0 \in [FileNames -> {"absent", "v1", "v2"}]
    /\ tree0["a.ts"] = "v2"
    /\ tree = tree0
    /\ pc = "args"
    /\ ctx = "try"
    /\ polls = 0
    /\ appDirectoryModified = FALSE
    /\ entries = <<>>
    /\ needsInstall = FALSE
    /\ next = 1
    /\ successCount = 0
    /\ failCount = 0
    /\ wrote = <<>>
    /\ statusServer = 0
    /\ servers = <<>>
    /\ conns = {}
    /\ closeTimer = FALSE
    /\ closeCb = 0
    /\ exited = FALSE
    /\ exitCode = 0
    /\ spawned = <<>>
    /\ spawnAttempts = 0
    /\ npmRuns = <<>>
    /\ log = <<>>
    /\ exchange = NoExchange
    /\ served = <<>>
    /\ server = NoServer
    /\ sup = NoSessions
    /\ endpoint = NoEndpoint
    /\ build = NoBuild
    /\ testsvr = NoTestsvr
    /\ deploy = NoDeploy
    /\ destPaths = NoPaths

(***************************************************************************)
(* The end of the process: every handle it holds goes with it.             *)
(***************************************************************************)
ProcessExit(code) ==
    /\ exited' = TRUE
    /\ exitCode' = code
    /\ pc' = "exited"
    /\ servers' = [i \in DOMAIN servers |->
                     IF servers[i] \in {"created", "listening"} THEN "stopped"
                     ELSE servers[i]]
    /\ conns' = {}
    /\ closeTimer' = FALSE
    /\ closeCb' = 0
    /\ UNCHANGED statusServer

\* The file written anew at each call instead of appended to.
LogMutant(lines) == log' = lines
\* log(message): fs.appendFileSync(LOG_FILE, line).
Log(lines) == log' = log \o lines

(***************************************************************************)
(* Argument parsing (module level, before main() runs)                     *)
(***************************************************************************)
\* The check of --md5 left out.
ArgsCompleteMutant(a) == a.zipPath

ArgsComplete(a) == a.zipPath /\ a.md5

ParseArgs ==
    /\ pc = "args"
    /\ \/ /\ ~ArgsComplete(args)
          /\ ProcessExit(1)             \* console.error only, then exit(1)
          /\ UNCHANGED log
       \/ /\ ArgsComplete(args)
          /\ pc' = "wait_shutdown"
          /\ Log(<<IF args.test THEN "RELAUNCH SCRIPT TEST MODE"
                   ELSE "RELAUNCH SCRIPT STARTED">>)
          /\ UNCHANGED <<statusV, procV>>
    /\ UNCHANGED <<auxV, inputs, zipExists, zipRead, oldSrv, tree, ctx, polls,
                   appDirectoryModified, writeV, outV>>

(***************************************************************************)
(* Step 1: waitForServerShutdown                                           *)
(***************************************************************************)
\* Whether the try block of one poll throws: parseInt of an unparseable
\* file gives NaN and process.kill(NaN, 0) throws; process.kill(pid, 0)
\* throws ESRCH when no such process exists and EPERM when the process
\* exists but may not be signalled.
ProbeThrows(file, alive) ==
    \/ file = "garbage"
    \/ file = "denied"
    \/ file = "valid" /\ ~alive

\* What one pass of the polling loop finds.
PollResult(file, alive) ==
    IF file = "absent" THEN "pid_file_removed"
    ELSE IF ProbeThrows(file, alive) THEN "not_running"
    ELSE "alive"

DeadlinePassed(n) == n >= MaxPolls

WaitForServerShutdown ==
    /\ pc = "wait_shutdown"
    /\ \/ /\ DeadlinePassed(polls)
          /\ Log(<<"Timeout waiting for server shutdown",
                   "ERROR: Server did not shut down in time">>)
          /\ ProcessExit(1)
          /\ UNCHANGED <<pidFile, polls>>
       \/ /\ ~DeadlinePassed(polls)
          /\ PollResult(pidFile, oldAlive) = "pid_file_removed"
          /\ Log(<<"PID file removed - server has shut down">>)
          /\ pc' = "status_start"
          /\ polls' = 0
          /\ UNCHANGED <<pidFile, statusV, procV>>
       \/ /\ ~DeadlinePassed(polls)
          /\ PollResult(pidFile, oldAlive) = "not_running"
          /\ Log(<<"Server process no longer running">>)
          /\ pidFile' = "absent"
          /\ pc' = "status_start"
          /\ polls' = 0
          /\ UNCHANGED <<statusV, procV>>
       \/ /\ ~DeadlinePassed(polls)
          /\ PollResult(pidFile, oldAlive) = "alive"
          /\ polls' = polls + 1
          /\ UNCHANGED <<pc, pidFile, statusV, procV, log>>
    /\ UNCHANGED <<auxV, inputs, zipExists, zipRead, oldAlive, tree, ctx,
                   appDirectoryModified, writeV, outV>>

(***************************************************************************)
(* startStatusServer, stopStatusServer                                     *)
(***************************************************************************)
\* http.createServer and listen(): a new server object is assigned to
\* statusServer; the outcome of listen arrives later as an event.
CreateServer ==
    /\ servers' = Append(servers, "created")
    /\ statusServer' = Len(servers) + 1

\* The server object whose listen() is still pending.
Pending == CHOOSE i \in DOMAIN servers : servers[i] = "created"

\* Where main() continues when a promise it awaits rejects: in its catch
\* block when the try block is running; a rejection inside the catch block
\* escapes main() and ends the process with status 1.
Reject ==
    IF ctx = "try"
    THEN /\ pc' = "catch"
         /\ UNCHANGED <<procV, conns, closeTimer, closeCb>>
    ELSE /\ exited' = TRUE
         /\ exitCode' = 1
         /\ pc' = "exited"
         /\ conns' = {}
         /\ closeTimer' = FALSE
         /\ closeCb' = 0

\* The position after startStatusServer has resolved.
AfterStart == IF pc = "status_listen" THEN "parse" ELSE "restart_check"

\* The outcome of listen(port): the listening callback, or the error event
\* with EACCES / EADDRINUSE (tolerated) or with another code (rejects).
ListenResult ==
    /\ pc \in {"status_listen", "restart_listen"}
    /\ \/ /\ servers' = [servers EXCEPT ![Pending] = "listening"]
          /\ Log(<<"Status server listening on port 80">>)
          /\ pc' = AfterStart
          /\ UNCHANGED <<statusServer, conns, closeTimer, closeCb, procV>>
       \/ /\ servers' = [servers EXCEPT ![Pending] = "errored"]
          /\ Log(<<"WARN: Could not start status server on port 80">>)
          /\ statusServer' = 0
          /\ pc' = AfterStart
          /\ UNCHANGED <<conns, closeTimer, closeCb, procV>>
       \/ /\ servers' = [servers EXCEPT ![Pending] = "errored"]
          /\ Reject
          /\ UNCHANGED <<statusServer, log>>
    /\ UNCHANGED <<auxV, inputs, zipExists, zipRead, oldSrv, tree, ctx, polls,
                   appDirectoryModified, writeV, outV>>

\* Step 2 of main(): start the status server, or only log it in test mode.
StartStatusStep ==
    /\ pc = "status_start"
    /\ \/ /\ args.test
          /\ Log(<<"[TEST] Status server would start on port 80 now">>)
          /\ pc' = "parse"
          /\ UNCHANGED <<statusServer, servers>>
       \/ /\ ~args.test
          /\ CreateServer
          /\ pc' = "status_listen"
          /\ UNCHANGED log
    /\ UNCHANGED <<auxV, inputs, zipExists, zipRead, oldSrv, tree, ctx, polls,
                   appDirectoryModified, writeV, conns, closeTimer, closeCb,
                   procV, outV>>

(***************************************************************************)
(* Steps 3 to 7 of main(): synchronous code                                *)
(***************************************************************************)
\* Step 3: parseZipInMemory.  readFileSync throws when the file is
\* missing; else it returns the bytes the staged file holds at that moment.
ParseStep ==
    /\ pc = "parse"
    /\ \/ /\ ~zipExists
          /\ Log(<<"Parsing zip file in memory...">>)
          /\ pc' = "catch"
          /\ UNCHANGED <<entries, zipRead>>
       \/ /\ zipExists
          /\ \E buf \in Packages :
               LET r == parseZipInMemory(buf, expectedMd5) IN
               /\ zipRead' = ReadOf(buf)
               /\ entries' = r.entries
               /\ pc' = IF r.ok THEN "diff" ELSE "catch"
               /\ Log(<<"Parsing zip file in memory...">>
                      \o (IF Md5Verified(buf, expectedMd5) THEN <<"MD5 verified">> ELSE <<>>)
                      \o (IF r.ok THEN <<"Found files in zip">> ELSE <<>>))
    /\ UNCHANGED <<auxV, inputs, zipExists, oldSrv, tree, ctx, polls, appDirectoryModified,
                   needsInstall, next, successCount, failCount, wrote,
                   statusV, procV, outV>>

\* Step 4: packageJsonChangedInZip, before anything is modified.
DiffStep ==
    /\ pc = "diff"
    /\ needsInstall' = packageJsonChangedInZip(entries, tree)
    /\ Log(<<"package.json changed">>)
    /\ pc' = "begin_write"
    /\ UNCHANGED <<auxV, inputs, zipExists, zipRead, oldSrv, tree, ctx, polls, appDirectoryModified,
                   entries, next, successCount, failCount, wrote,
                   statusV, procV, outV>>

\* The flag left unset before the writes.
FlagAtWriteMutant(test) == FALSE

\* The value of appDirectoryModified once step 5 has announced the writes.
FlagAtWrite(test) == ~test

\* Step 5, before the loop: the point of no return.
BeginWrite ==
    /\ pc = "begin_write"
    /\ appDirectoryModified' = FlagAtWrite(args.test)
    /\ Log(<<IF args.test THEN "[TEST] Would deploy the following files:"
             ELSE "Writing files to app directory...">>)
    /\ next' = 1
    /\ successCount' = 0
    /\ failCount' = 0
    /\ pc' = "write"
    /\ UNCHANGED <<auxV, inputs, zipExists, zipRead, oldSrv, tree, ctx, polls,
                   entries, needsInstall, wrote, statusV, procV, outV>>

\* writeFileVerified(destPath, data): the file holds the data, or the write
\* fails and leaves the file as it was or partly written.
WriteOutcomes == {"ok", "fail_untouched", "fail_partial"}

writeFileVerified(disk, entry, outcome) ==
    [ok |-> outcome = "ok",
     disk |-> IF outcome = "ok" THEN [disk EXCEPT ![entry.fileName] = entry.data]
              ELSE IF outcome = "fail_partial"
                   THEN [disk EXCEPT ![entry.fileName] = "partial"]
              ELSE disk]

\* The loop body writing the entry in test mode too.
WritesEntryMutant(test) == TRUE

\* Whether the loop body writes the entry (it only logs it in test mode).
WritesEntry(test) == ~test

\* Step 5, one pass of the loop over the entries.
WriteEntry ==
    /\ pc = "write"
    /\ next <= Len(entries)
    /\ \/ /\ ~WritesEntry(args.test)
          /\ Log(<<"[TEST] NOT WRITTEN">>)
          /\ successCount' = successCount + 1
          /\ UNCHANGED <<tree, failCount, wrote>>
       \/ /\ WritesEntry(args.test)
          /\ \E outcome \in WriteOutcomes :
               LET r == writeFileVerified(tree, entries[next], outcome) IN
               /\ tree' = r.disk
               /\ wrote' = Append(wrote, entries[next].fileName)
               /\ successCount' = IF r.ok THEN successCount + 1 ELSE successCount
               /\ failCount' = IF r.ok THEN failCount ELSE failCount + 1
               /\ Log(<<IF r.ok THEN "OK" ELSE "ERROR: write failed">>)
    /\ next' = next + 1
    /\ UNCHANGED <<auxV, inputs, zipExists, zipRead, oldSrv, pc, ctx, polls, appDirectoryModified,
                   entries, needsInstall, statusV, procV, outV>>

\* The throw after the loop left out.
WriteFailedMutant(n) == FALSE

\* Whether main() throws after the loop: failCount > 0.
WriteFailed(n) == n > 0

\* Step 5, after the loop: the tally, and the throw when a write failed.
Tally ==
    /\ pc = "write"
    /\ next > Len(entries)
    /\ Log(<<"Wrote files">>)
    /\ pc' = IF WriteFailed(failCount) THEN "catch" ELSE "install"
    /\ UNCHANGED <<auxV, inputs, zipExists, zipRead, oldSrv, tree, ctx, polls, appDirectoryModified,
                   writeV, statusV, procV, outV>>

\* execSync(command, {cwd, stdio}): returns, or throws when the command
\* fails; called without the timeout option, it does not return while the
\* command runs, and main() and the event loop stand still with it.
ExecOutcomes == {"ok", "fails", "blocks"}

\* The position of main() after execSync.
AfterExec(outcome, then) ==
    IF outcome = "ok" THEN then
    ELSE IF outcome = "fails" THEN "catch"
    ELSE "exec_blocked"

\* Step 6: npm install if needed.
InstallStep ==
    /\ pc = "install"
    /\ \/ /\ ~needsInstall
          /\ pc' = "build"
          /\ UNCHANGED <<npmRuns, log>>
       \/ /\ needsInstall /\ args.test
          /\ Log(<<"[TEST] Would run npm install">>)
          /\ pc' = "build"
          /\ UNCHANGED npmRuns
       \/ /\ needsInstall /\ ~args.test
          /\ Log(<<"Running npm install...">>)
          /\ npmRuns' = Append(npmRuns, "npm install")
          /\ \E outcome \in ExecOutcomes :
               pc' = AfterExec(outcome, "build")
    /\ UNCHANGED <<auxV, inputs, zipExists, zipRead, oldSrv, tree, ctx, polls, appDirectoryModified,
                   writeV, statusV, procV, spawned, spawnAttempts>>

\* Step 7: npm run build.
BuildStep ==
    /\ pc = "build"
    /\ \/ /\ args.test
          /\ Log(<<"[TEST] Would run npm run build", "[TEST] Status server would stop now">>)
          /\ pc' = "launch_stop"
          /\ UNCHANGED npmRuns
       \/ /\ ~args.test
          /\ Log(<<"Building TypeScript...">>)
          /\ npmRuns' = Append(npmRuns, "npm run build")
          /\ \E outcome \in ExecOutcomes :
               pc' = AfterExec(outcome, "launch_stop")
    /\ UNCHANGED <<auxV, inputs, zipExists, zipRead, oldSrv, tree, ctx, polls, appDirectoryModified,
                   writeV, statusV, procV, spawned, spawnAttempts>>

(***************************************************************************)
(* launchServerWithRecovery                                                *)
(***************************************************************************)
\* main() is suspended in an await (or has returned): only then do timers,
\* callbacks and events of the process run.
HangStates == {"hang_status", "hang_nostatus", "hang_unsafe_status", "hang_unsafe_nostatus"}
AwaitStates == {"status_listen", "launch_stopping", "restart_listen", "returned"}
                   \cup HangStates

\* close() leaving the server listening.
CloseServerMutant(state) == state

\* server.close(): a listening server stops accepting connections at once.
CloseServer(state) == IF state = "listening" THEN "stopped" ELSE state

\* stopStatusServer setting no timer.
ForceCloseTimerMutant == FALSE

\* setTimeout(..., 2000) in stopStatusServer: the timer is pending.
ForceCloseTimer == TRUE

\* Step 1: stopStatusServer.  With no server it resolves at once; else
\* close() stops the listening at once, its callback runs when the last
\* connection has ended, and a 2 s timer is set.
StopStatusServer ==
    /\ pc = "launch_stop"
    /\ \/ /\ statusServer = 0
          /\ pc' = "launch_spawn"
          /\ UNCHANGED <<servers, closeTimer, closeCb, log>>
       \/ /\ statusServer # 0
          /\ Log(<<"Stopping status server...">>)
          /\ servers' = [servers EXCEPT ![statusServer] = CloseServer(@)]
          /\ closeCb' = statusServer
          /\ closeTimer' = ForceCloseTimer
          /\ pc' = "launch_stopping"
    /\ UNCHANGED <<auxV, inputs, zipExists, zipRead, oldSrv, tree, ctx, polls, appDirectoryModified,
                   writeV, statusServer, conns, procV, outV>>

\* The callback of close(): clears the variable and resolves the stop.
CloseCallback ==
    /\ pc \in AwaitStates
    /\ closeCb # 0
    /\ closeCb \notin conns
    /\ Log(<<"Status server stopped">>)
    /\ statusServer' = 0
    /\ closeCb' = 0
    /\ pc' = IF pc = "launch_stopping" THEN "launch_spawn" ELSE pc
    /\ UNCHANGED <<auxV, inputs, zipExists, zipRead, oldSrv, tree, ctx, polls, appDirectoryModified,
                   writeV, servers, conns, closeTimer, procV, outV>>

\* The 2 s timer of stopStatusServer: force-closes the connections of the
\* server the variable holds now, clears the variable, resolves the stop.
CloseTimer ==
    /\ pc \in AwaitStates
    /\ closeTimer
    /\ closeTimer' = FALSE
    /\ conns' = IF statusServer # 0 THEN conns \ {statusServer} ELSE conns
    /\ statusServer' = 0
    /\ pc' = IF pc = "launch_stopping" THEN "launch_spawn" ELSE pc
    /\ UNCHANGED <<auxV, inputs, zipExists, zipRead, oldSrv, tree, ctx, polls, appDirectoryModified,
                   writeV, servers, closeCb, procV, outV, log>>

\* spawn("npm", ["start"], {detached}): returns a child, or throws.
SpawnOutcomes == {"ok", "throws"}

\* The catch block going on as the try block does.
AfterLaunchMutant(block) == "complete"

\* Where main() goes on when launchServerWithRecovery has returned: after
\* the call in the try block, or after the one in the catch block.
AfterLaunch(block) == IF block = "try" THEN "complete" ELSE "safe_exit"

\* Steps 2 to 4: spawn the server; when spawn throws, restart the status
\* server.  On success launchServerWithRecovery returns true to its caller.
SpawnServer ==
    /\ pc = "launch_spawn"
    /\ spawnAttempts' = spawnAttempts + 1
    /\ \/ /\ spawned' = Append(spawned, tree)
          /\ Log(<<"Starting server...", "Server started">>)
          /\ pc' = AfterLaunch(ctx)
          /\ UNCHANGED <<statusServer, servers>>
       \/ /\ Log(<<"Starting server...", "CRITICAL: Failed to start server",
                   "Restarting status server for diagnostics...">>)
          /\ CreateServer
          /\ pc' = "restart_listen"
          /\ UNCHANGED spawned
    /\ UNCHANGED <<auxV, inputs, zipExists, zipRead, oldSrv, tree, ctx, polls, appDirectoryModified,
                   writeV, conns, closeTimer, closeCb, procV, npmRuns>>

\* After the restart: hang with or without the status server.
RestartCheck ==
    /\ pc = "restart_check"
    /\ \/ /\ statusServer # 0
          /\ Log(<<"Status server restarted on port 80", "Waiting indefinitely...">>)
          /\ pc' = "hang_status"
       \/ /\ statusServer = 0
          /\ Log(<<"Could not restart status server. Hanging to keep process visible...">>)
          /\ pc' = "hang_nostatus"
    /\ UNCHANGED <<auxV, inputs, zipExists, zipRead, oldSrv, tree, ctx, polls, appDirectoryModified,
                   writeV, statusV, procV, outV>>

(***************************************************************************)
(* The end of main(): success, and the catch block                         *)
(***************************************************************************)
\* After a successful launch in the try block: delete the zip, return.
Complete ==
    /\ pc = "complete"
    /\ Log(<<"RELAUNCH COMPLETE">>
           \o IF zipExists THEN <<>> ELSE <<"WARN: Could not delete zip file">>)
    /\ zipExists' = FALSE
    /\ pc' = "returned"
    /\ UNCHANGED <<auxV, inputs, zipRead, oldSrv, tree, ctx, polls, appDirectoryModified,
                   writeV, statusV, procV, outV>>

\* The catch block restarting the server whatever the flag says.
SafeToRestartMutant(modified) == TRUE

\* Whether the catch block may restart the server with the code on disk.
SafeToRestart(modified) == ~modified

\* The catch block of main(), up to its hang or its call of
\* launchServerWithRecovery.
CatchBlock ==
    /\ pc = "catch"
    /\ \/ /\ ~SafeToRestart(appDirectoryModified)
          /\ Log(<<"FATAL ERROR", "CRITICAL: App directory was modified before failure.">>)
          /\ pc' = IF statusServer # 0 THEN "hang_unsafe_status" ELSE "hang_unsafe_nostatus"
          /\ UNCHANGED ctx
       \/ /\ SafeToRestart(appDirectoryModified)
          /\ Log(<<"FATAL ERROR", "App directory was not modified - safe to restart with existing code.">>)
          /\ ctx' = "catch"
          /\ pc' = "launch_stop"
    /\ UNCHANGED <<auxV, inputs, zipExists, zipRead, oldSrv, tree, polls, appDirectoryModified,
                   writeV, statusV, procV, outV>>

\* The status the catch block exits with after a successful restart.
SafeFailureStatus == 1

\* The last lines of the catch block.
SafeExit ==
    /\ pc = "safe_exit"
    /\ Log(<<"Server restarted after safe failure.">>)
    /\ ProcessExit(SafeFailureStatus)
    /\ UNCHANGED <<auxV, inputs, zipExists, zipRead, oldSrv, tree, ctx, polls, appDirectoryModified,
                   writeV, outV>>

(***************************************************************************)
(* The event loop and the environment                                      *)
(***************************************************************************)
\* A handle that keeps the event loop alive.
LiveHandles ==
    \/ \E i \in DOMAIN servers : servers[i] \in {"created", "listening"}
    \/ conns # {}
    \/ closeTimer
    \/ closeCb # 0

\* main() has returned or awaits a promise that never settles, and nothing
\* is left in the event loop: the process ends with status 0.
LoopDrained ==
    /\ pc \in {"returned"} \cup HangStates
    /\ ~LiveHandles
    /\ ProcessExit(0)
    /\ UNCHANGED <<auxV, inputs, zipExists, zipRead, oldSrv, tree, ctx, polls, appDirectoryModified,
                   writeV, outV, log>>

\* A client connects to the listening status server, or ends a connection.
ClientConnect ==
    /\ ~exited
    /\ \E s \in DOMAIN servers :
         /\ servers[s] = "listening"
         /\ s \notin conns
         /\ conns' = conns \cup {s}
    /\ UNCHANGED <<auxV, inputs, zipExists, zipRead, oldSrv, tree, pc, ctx, polls, appDirectoryModified,
                   writeV, statusServer, servers, closeTimer, closeCb, procV, outV, log>>

ClientDisconnect ==
    /\ ~exited
    /\ \E s \in conns : conns' = conns \ {s}
    /\ UNCHANGED <<auxV, inputs, zipExists, zipRead, oldSrv, tree, pc, ctx, polls, appDirectoryModified,
                   writeV, statusServer, servers, closeTimer, closeCb, procV, outV, log>>

\* The old server ends, gracefully (it removes its PID file) or not, while
\* the supervisor starts or waits for it.
OldServerExits ==
    /\ pc \in {"args", "wait_shutdown"}
    /\ oldAlive
    /\ oldAlive' = FALSE
    /\ pidFile' \in {"absent", IF pidFile = "denied" THEN "valid" ELSE pidFile}
    /\ UNCHANGED <<auxV, inputs, zipExists, zipRead, tree, pc, ctx, polls, appDirectoryModified,
                   writeV, statusV, procV, outV, log>>

Next ==
    \/ ParseArgs
    \/ WaitForServerShutdown
    \/ StartStatusStep
    \/ ListenResult
    \/ ParseStep
    \/ DiffStep
    \/ BeginWrite
    \/ WriteEntry
    \/ Tally
    \/ InstallStep
    \/ BuildStep
    \/ StopStatusServer
    \/ CloseCallback
    \/ CloseTimer
    \/ SpawnServer
    \/ RestartCheck
    \/ Complete
    \/ CatchBlock
    \/ SafeExit
    \/ LoopDrained
    \/ ClientConnect
    \/ ClientDisconnect
    \/ OldServerExits

Spec == Init /\ [][Next]_vars

(***************************************************************************)
(* The request handler of the status server, on its own: a listening       *)
(* status server, a log file that grows, and requests.  A URL is the       *)
(* concatenation of its parts.                                             *)
(***************************************************************************)
StatusRoute == "/api/admin/hot-reload-status"
UrlParts == {StatusRoute, "/ping", "x", "?"}
Urls == SeqsUpTo(UrlParts, MaxUrlParts)

\* req.url?.startsWith("/api/admin/hot-reload-status"): no other part, and
\* no concatenation of other parts, begins with the route.
UrlStartsWithRoute(url) == Len(url) >= 1 /\ url[1] = StatusRoute

Advisory ==
    <<"[RELAUNCH]",
      "Server is restarting. Check /api/admin/hot-reload-status for progress.">>

\* What the handler answers when reading the log file throws.
NotAvailableYet == <<"[RELAUNCH]", "[Log file not available yet]">>

\* The callback of http.createServer: status and body of the response.
RequestHandler(url, readable, content) ==
    IF UrlStartsWithRoute(url)
    THEN [status |-> 200,
          body |-> IF readable THEN <<"[RELAUNCH]">> \o content
                   ELSE NotAvailableYet]
    ELSE [status |-> 503, body |-> Advisory]

\* A production session at step 3, its status server listening.
HandlerInit ==
    /\ args = [zipPath |-> TRUE, md5 |-> TRUE, test |-> FALSE]
    /\ expectedMd5 = 0
    /\ zipExists = TRUE
    /\ zipRead = NotRead
    /\ oldAlive = FALSE
    /\ pidFile = "absent"
    /\ tree0 = [n \in FileNames |-> "v2"]
    /\ tree = tree0
    /\ pc = "parse"
    /\ ctx = "try"
    /\ polls = 0
    /\ appDirectoryModified = FALSE
    /\ entries = <<>>
    /\ needsInstall = FALSE
    /\ next = 1
    /\ successCount = 0
    /\ failCount = 0
    /\ wrote = <<>>
    /\ statusServer = 1
    /\ servers = <<"listening">>
    /\ conns = {}
    /\ closeTimer = FALSE
    /\ closeCb = 0
    /\ exited = FALSE
    /\ exitCode = 0
    /\ spawned = <<>>
    /\ spawnAttempts = 0
    /\ npmRuns = <<>>
    /\ log = <<>>
    /\ exchange = NoExchange
    /\ served = <<>>
    /\ server = NoServer
    /\ sup = NoSessions
    /\ endpoint = NoEndpoint
    /\ build = NoBuild
    /\ testsvr = NoTestsvr
    /\ deploy = NoDeploy
    /\ destPaths = NoPaths

\* log(message): one more line in the log file.
LogLines == {"Parsing zip file in memory...", "MD5 verified"}
AppendLogLine ==
    /\ Len(log) < MaxLogLines
    /\ \E line \in LogLines : Log(<<line>>)
    /\ UNCHANGED <<auxV, inputs, zipExists, zipRead, oldSrv, tree, pc, ctx, polls,
                   appDirectoryModified, writeV, statusV, procV, outV>>

\* fs.readFileSync(LOG_FILE) succeeds once the file exists; the file comes
\* into being with the first line that log() appends, and nothing in the
\* session removes or truncates it.
LogFileExists == log # <<>>

\* The lines of the log file that a status response carries after its
\* prefix line; the placeholder carries none.
LogContentOf(response) ==
    IF response.status = 200 /\ response.body # NotAvailableYet
    THEN Tail(response.body)
    ELSE <<>>

\* A request arrives at the listening status server and is answered from
\* the log file as it is at that moment.
ServeRequest ==
    /\ \E i \in DOMAIN servers : servers[i] = "listening"
    /\ Len(served) < MaxServed
    /\ \E url \in Urls :
         LET response == RequestHandler(url, LogFileExists, log) IN
         /\ exchange' = [request |-> url, readable |-> LogFileExists,
                         response |-> response]
         /\ served' = IF response.status = 200
                       THEN Append(served, LogContentOf(response))
                       ELSE served
    /\ UNCHANGED <<sessionsV, endpoint, toolsV, inputs, zipExists, zipRead, oldSrv, tree, pc, ctx, polls,
                   appDirectoryModified, writeV, statusV, procV, outV, log>>

HandlerNext == AppendLogLine \/ ServeRequest

HandlerSpec == HandlerInit /\ [][HandlerNext]_vars

(***************************************************************************)
(* Several hot-reload requests: the serving server hands each admitted     *)
(* request to a supervisor of its own, and every supervisor runs main()    *)
(* on the same managed tree.  A session is followed through its phases:    *)
(* "await" (step 1), "validate" (steps 3 and 4), "write" (steps 5 to 7:    *)
(* write, install, build), "relaunch" (step 8 or the safe restart), and    *)
(* its ends "done", "timeout" and "hang".                                  *)
(***************************************************************************)
\* The state of the session's own variables while several sessions are
\* followed: none of them is used.
NoSession ==
    /\ args = [zipPath |-> TRUE, md5 |-> TRUE, test |-> FALSE]
    /\ expectedMd5 = 0
    /\ zipExists = TRUE
    /\ zipRead = NotRead
    /\ oldAlive = FALSE
    /\ pidFile = "absent"
    /\ tree0 = [n \in FileNames |-> "v2"]
    /\ tree = tree0
    /\ pc = "args"
    /\ ctx = "try"
    /\ polls = 0
    /\ appDirectoryModified = FALSE
    /\ entries = <<>>
    /\ needsInstall = FALSE
    /\ next = 1
    /\ successCount = 0
    /\ failCount = 0
    /\ wrote = <<>>
    /\ statusServer = 0
    /\ servers = <<>>
    /\ conns = {}
    /\ closeTimer = FALSE
    /\ closeCb = 0
    /\ exited = FALSE
    /\ exitCode = 0
    /\ spawned = <<>>
    /\ spawnAttempts = 0
    /\ npmRuns = <<>>
    /\ log = <<>>

\* A server is serving and has recorded its process id; no supervisor yet.
SessionsInit ==
    /\ NoSession
    /\ exchange = NoExchange
    /\ served = <<>>
    \* a server is serving and has recorded its process id
    /\ server = [alive |-> TRUE, pid |-> "valid", handedOff |-> FALSE]
    /\ sup = NoSessions
    /\ endpoint = NoEndpoint
    /\ build = NoBuild
    /\ testsvr = NoTestsvr
    /\ deploy = NoDeploy
    /\ destPaths = NoPaths

SessionFrame ==
    UNCHANGED <<handlerV, endpoint, toolsV, inputs, zipExists, zipRead, oldSrv, tree, pc, ctx, polls,
                appDirectoryModified, writeV, statusV, procV, outV, log>>

\* The transfer endpoint admits a request: it spawns a supervisor, detached.
AdmitRequest ==
    /\ server.alive
    /\ \E i \in Supervisors :
         /\ sup[i].phase = "none"
         /\ \A j \in Supervisors : j < i => sup[j].phase # "none"
         /\ sup' = [sup EXCEPT ![i].phase = "await"]
    /\ server' = [server EXCEPT !.handedOff = TRUE]
    /\ SessionFrame

\* The server that has handed off terminates: gracefully, removing its PID
\* file, or leaving the file behind.
ServerTerminates ==
    /\ server.alive /\ server.handedOff
    /\ \E file \in {"absent", server.pid} :
         server' = [server EXCEPT !.alive = FALSE, !.pid = file]
    /\ UNCHANGED sup
    /\ SessionFrame

\* Step 1 of a session: one pass of waitForServerShutdown.
SessionAwaitShutdown(i) ==
    /\ sup[i].phase = "await"
    /\ IF DeadlinePassed(sup[i].polls)
       THEN /\ sup' = [sup EXCEPT ![i].phase = "timeout"]
            /\ UNCHANGED server
       ELSE LET found == PollResult(server.pid, server.alive) IN
            /\ sup' = [sup EXCEPT
                          ![i].phase = IF found = "alive" THEN "await" ELSE "validate",
                          ![i].polls = IF found = "alive" THEN @ + 1 ELSE @]
            /\ server' = IF found = "not_running"
                          THEN [server EXCEPT !.pid = "absent"] ELSE server
    /\ SessionFrame

\* Steps 3 and 4: the package is accepted and the writes begin, or the
\* session fails safely and restarts the server.
SessionValidate(i) ==
    /\ sup[i].phase = "validate"
    /\ \E to \in {"write", "relaunch"} : sup' = [sup EXCEPT ![i].phase = to]
    /\ UNCHANGED server
    /\ SessionFrame

\* Steps 5 to 7: write, install, build; a failure ends in the hang.
SessionMaterialize(i) ==
    /\ sup[i].phase = "write"
    /\ \E to \in {"relaunch", "hang"} : sup' = [sup EXCEPT ![i].phase = to]
    /\ UNCHANGED server
    /\ SessionFrame

\* launchServerWithRecovery: the spawned server serves and records its
\* process id; or spawn throws and the supervisor hangs.
SessionRelaunch(i) ==
    /\ sup[i].phase = "relaunch"
    /\ \/ /\ sup' = [sup EXCEPT ![i].phase = "done"]
          /\ server' = [alive |-> TRUE, pid |-> "valid", handedOff |-> FALSE]
       \/ /\ sup' = [sup EXCEPT ![i].phase = "hang"]
          /\ UNCHANGED server
    /\ SessionFrame

SessionsNext ==
    \/ AdmitRequest
    \/ ServerTerminates
    \/ \E i \in Supervisors :
         \/ SessionAwaitShutdown(i)
         \/ SessionValidate(i)
         \/ SessionMaterialize(i)
         \/ SessionRelaunch(i)

SessionsSpec == SessionsInit /\ [][SessionsNext]_vars

(***************************************************************************)
(* Vocabulary of the properties                                            *)
(***************************************************************************)
InLog(line) == \E i \in 1..Len(log) : log[i] = line

\* The status server accepts connections.
ListenerUp == \E i \in DOMAIN servers : servers[i] = "listening"

\* parseZipInMemory has read the package, found its digest equal to the
\* expected one and decoded all of it without error.
Validated ==
    /\ zipRead.read
    /\ zipRead.md5 = expectedMd5
    /\ zipRead.decoded

\* A step failed after the point of no return: main()'s catch block found
\* appDirectoryModified set.
UnsafeFailure == InLog("CRITICAL: App directory was modified before failure.")
\* spawn threw in launchServerWithRecovery.
SpawnFailure == InLog("CRITICAL: Failed to start server")
\* main()'s catch block ran.
CaughtFailure == InLog("FATAL ERROR")
\* waitForServerShutdown gave up.
ShutdownTimeout == InLog("Timeout waiting for server shutdown")
\* waitForServerShutdown returned true.
ShutdownConfirmed ==
    \/ InLog("PID file removed - server has shut down")
    \/ InLog("Server process no longer running")

(***************************************************************************)
(* C1                                                                      *)
(***************************************************************************)
\* C1: no file of the managed tree is written (and the tree is as it was)
\* before the supervisor has read the staged package, found its recomputed
\* MD5 equal to the expected digest and decoded every entry without error.
C1_NoWriteBeforeValidation ==
    (wrote # <<>> \/ tree # tree0) => Validated

\* A file has been written, of a package read with the expected digest.
C1_Witness == wrote # <<>> /\ successCount > 0 /\ tree # tree0 /\ Validated

(***************************************************************************)
(* C2                                                                      *)
(***************************************************************************)
\* C2: once a step has failed with appDirectoryModified set, the supervisor
\* spawns no server and never exits: it stays in the hang state, and a
\* hanging supervisor has spawned no server.
C2_UnsafeFailureHangs ==
    /\ UnsafeFailure => (~exited /\ spawned = <<>>)
    /\ pc \in HangStates => spawned = <<>>

(***************************************************************************)
(* C3                                                                      *)
(***************************************************************************)
\* C3 as stated: whenever the session has ended with appDirectoryModified
\* false, the server has been restarted on the unchanged tree and the exit
\* status is not 0.
C3_AsStated ==
    (exited /\ ~appDirectoryModified) =>
        (spawned # <<>> /\ spawned[Len(spawned)] = tree0 /\ exitCode # 0)

SafeRestartDone == InLog("Server restarted after safe failure.")

\* C3 as amended: a session that fails with appDirectoryModified false after
\* the old server's shutdown was confirmed runs the catch block's restart:
\* nothing of the tree has been written, npm has not run, every server it
\* spawns runs the unchanged tree, and once the spawn has succeeded the
\* supervisor exits with status 1.
C3_SafeFailureRestarts ==
    /\ (CaughtFailure /\ ~appDirectoryModified) => ctx = "catch"
    /\ ctx = "catch" =>
         /\ ~appDirectoryModified
         /\ tree = tree0 /\ wrote = <<>> /\ npmRuns = <<>>
         /\ \A i \in 1..Len(spawned) : spawned[i] = tree0
    /\ (pc = "safe_exit" \/ SafeRestartDone) =>
         (spawned # <<>> /\ spawned[Len(spawned)] = tree0)
    /\ SafeRestartDone => (exited /\ exitCode = 1)

\* A safe failure after which the unchanged server was restarted.
C3_Witness ==
    /\ exited /\ exitCode = 1 /\ SafeRestartDone
    /\ zipRead.read /\ zipRead.md5 # expectedMd5
    /\ spawned = <<tree0>>

(***************************************************************************)
(* C4                                                                      *)
(***************************************************************************)
\* C4: appDirectoryModified never reverts to false; it becomes true only in
\* the step that opens the write loop, with nothing written yet and the
\* loop at its first entry; and every write finds it true.
C4_FlagSetOnceBeforeWrites ==
    [][ /\ (appDirectoryModified => appDirectoryModified')
        /\ ((wrote' # wrote \/ tree' # tree) => appDirectoryModified)
        /\ ((~appDirectoryModified /\ appDirectoryModified') =>
              /\ pc = "begin_write" /\ pc' = "write" /\ next' = 1
              /\ wrote = <<>> /\ tree = tree0) ]_vars

\* The first write has just been made, with the flag set.
C4_Witness == appDirectoryModified /\ pc = "write" /\ Len(wrote) = 1 /\ next = 2

(***************************************************************************)
(* C5                                                                      *)
(***************************************************************************)
\* C5: when the package read has another digest than expected, or is not a
\* well-formed archive, the session never enters WRITE: the flag stays
\* false, nothing is written, and the session ends with a status other
\* than 0 after restarting the unchanged server.
C5_BadPackageNeverWritten ==
    (zipRead.read /\ (zipRead.md5 # expectedMd5 \/ ~zipRead.wellFormed)) =>
        /\ ~appDirectoryModified
        /\ wrote = <<>>
        /\ exited => (exitCode # 0 /\ spawned = <<tree0>>)

(***************************************************************************)
(* C6                                                                      *)
(***************************************************************************)
\* C6: after a failure of a session that has entered WRITE, the supervisor
\* never exits and the status server is listening.
C6_ListenerStaysAfterWrite ==
    (appDirectoryModified /\ (UnsafeFailure \/ SpawnFailure)
       /\ (pc \in HangStates \/ exited)) =>
        (~exited /\ ListenerUp)

(***************************************************************************)
(* C7                                                                      *)
(***************************************************************************)
\* C7: no file of the managed tree is written while the old server process
\* is alive.
C7_NoWriteWhileOldAlive == wrote # <<>> => ~oldAlive

(***************************************************************************)
(* C8                                                                      *)
(***************************************************************************)
\* C8: once spawning the server has failed, the supervisor never exits, and
\* when it hangs the restarted status server is listening.
C8_SpawnFailureKeepsListener ==
    SpawnFailure => (~exited /\ (pc \in HangStates => ListenerUp))

(***************************************************************************)
(* C9                                                                      *)
(***************************************************************************)
\* C9: the supervisor exits with status 0 only after a session that
\* completed without any failure; every other exit has status 1.
C9_ExitStatus ==
    exited =>
        IF exitCode = 0
        THEN InLog("RELAUNCH COMPLETE") /\ ~CaughtFailure /\ ~SpawnFailure
        ELSE exitCode = 1

(***************************************************************************)
(* C10                                                                     *)
(***************************************************************************)
\* The supervisor has started no status server, read no package, written
\* no file, run no command and spawned no server.
NothingDone ==
    /\ servers = <<>> /\ statusServer = 0
    /\ ~zipRead.read
    /\ wrote = <<>> /\ tree = tree0
    /\ npmRuns = <<>>
    /\ spawnAttempts = 0 /\ spawned = <<>>

\* C10: with the zip path or --md5 missing, or after the shutdown timeout,
\* the supervisor has exited with status 1 and has done nothing else.
C10_EarlyExitDoesNothing ==
    /\ ~(args.zipPath /\ args.md5) =>
          (pc = "args" \/ (exited /\ exitCode = 1 /\ NothingDone))
    /\ ShutdownTimeout => (exited /\ exitCode = 1 /\ NothingDone)

\* The supervisor gave up waiting for a server that is still alive.
C10_Witness == exited /\ exitCode = 1 /\ ShutdownTimeout /\ oldAlive /\ NothingDone

(***************************************************************************)
(* C11                                                                     *)
(***************************************************************************)
\* C11: whenever the supervisor has exited after the old server's shutdown
\* was confirmed, an application server is running: one it has spawned (or
\* the old server, still alive).
C11_ExitLeavesServerRunning ==
    (exited /\ ShutdownConfirmed) => (spawned # <<>> \/ oldAlive)

(***************************************************************************)
(* C12                                                                     *)
(***************************************************************************)
\* C12: a test-mode session writes no entry, runs no npm command and leaves
\* the tree as it was; it spawns the server only after the shutdown of the
\* old one was confirmed, and completes only after the package was read
\* with the expected digest and decoded and the server was spawned on the
\* unchanged tree.
C12_TestModeChangesNothing ==
    args.test =>
        /\ wrote = <<>> /\ tree = tree0 /\ npmRuns = <<>>
        /\ spawnAttempts > 0 => ShutdownConfirmed
        /\ InLog("RELAUNCH COMPLETE") => (Validated /\ spawned = <<tree0>>)

\* A test-mode session that went through a package with an entry and
\* restarted the server.
C12_Witness ==
    /\ args.test /\ pc = "returned"
    /\ successCount > 0 /\ InLog("[TEST] NOT WRITTEN")
    /\ spawned = <<tree0>>

(***************************************************************************)
(* C13                                                                     *)
(***************************************************************************)
\* C13: in test mode no status server is ever created.
C13_NoListenerInTestMode == args.test => servers = <<>>

(***************************************************************************)
(* C14                                                                     *)
(***************************************************************************)
\* C14: in test mode, once spawning the server has failed, the supervisor
\* does not hang, and when it has exited its status is 1.
C14_TestSpawnFailureExits ==
    (args.test /\ SpawnFailure) =>
        (pc \notin HangStates /\ (exited => exitCode = 1))

(***************************************************************************)
(* C15                                                                     *)
(***************************************************************************)
\* C15: the status server listens only once the old server's shutdown has
\* been confirmed; no status server is listening when a spawn of the server
\* is attempted; and none listens once a server has been spawned.
C15_PortHandedOverInSequence ==
    [][ /\ (ListenerUp' => ShutdownConfirmed')
        /\ (spawnAttempts' # spawnAttempts => ~ListenerUp)
        /\ (spawned' # <<>> => ~ListenerUp') ]_vars

\* A server was spawned after the status server had listened and was
\* stopped.
C15_Witness ==
    /\ ~exited /\ spawned # <<>>
    /\ InLog("Status server listening on port 80")
    /\ \E i \in DOMAIN servers : servers[i] = "stopped"

(***************************************************************************)
(* C16                                                                     *)
(***************************************************************************)
\* A listen() of the status server has failed.
ListenFailed == \E i \in DOMAIN servers : servers[i] = "errored"

\* C16: whenever the status server could not bind its port, the supervisor
\* has logged the warning (and carried on, instead of failing).
C16_BindFailureTolerated ==
    ListenFailed => InLog("WARN: Could not start status server on port 80")

(***************************************************************************)
(* C18                                                                     *)
(***************************************************************************)
InstallRan == \E k \in 1..Len(npmRuns) : npmRuns[k] = "npm install"
BuildRan == \E k \in 1..Len(npmRuns) : npmRuns[k] = "npm run build"
\* The positions of the root package.json among the decoded entries.
PkgEntries == { i \in 1..Len(entries) : entries[i].fileName = PkgJson }
\* The session is over: the process has ended, or main() has returned or
\* hangs.
SessionOver == exited \/ pc \in {"returned"} \cup HangStates

\* C18 as stated: in a session that is over, npm install has run if and
\* only if the package holds a root package.json whose content differs
\* from the one on disk before the writes (or none was on disk).
C18_AsStated ==
    SessionOver =>
        (InstallRan <=> \E i \in PkgEntries : entries[i].data # tree0[PkgJson])

\* The first root package.json of the package differs from the one that was
\* on disk before the writes ("absent" differs from every content).
ManifestChanged ==
    /\ PkgEntries # {}
    /\ LET first == CHOOSE i \in PkgEntries : \A j \in PkgEntries : i <= j
       IN  entries[first].data # tree0[PkgJson]

\* C18 as amended: npm install runs only in production mode, after writes
\* that all succeeded, and only when the manifest changed; a production
\* session that has come to the build has run npm install if and only if
\* the manifest changed; and when the decision has been taken the tree and
\* appDirectoryModified are as before.
C18_InstallIffManifestChanged ==
    /\ InstallRan => (~args.test /\ failCount = 0 /\ ManifestChanged)
    /\ ((pc = "build" /\ ~args.test) \/ BuildRan) => (InstallRan <=> ManifestChanged)
    /\ pc = "begin_write" =>
         (needsInstall = ManifestChanged /\ tree = tree0 /\ ~appDirectoryModified)

\* A deploy that replaced another package.json and ran npm install.
C18_Witness ==
    /\ pc = "returned" /\ InstallRan /\ BuildRan
    /\ tree0[PkgJson] = "v2" /\ tree[PkgJson] = "v1"

(***************************************************************************)
(* C19                                                                     *)
(***************************************************************************)
\* C19: when a write has failed, main() leaves the loop by a throw; from then on
\* the tree stays as the writes left it, and no npm command has run or
\* runs, and no server is spawned.
C19_FailedWriteAbortsWithoutRollback ==
    [][ /\ (pc = "write" /\ failCount > 0 /\ pc' # "write") => pc' = "catch"
        /\ (failCount > 0 /\ pc # "write") =>
              (tree' = tree /\ npmRuns' = <<>> /\ spawned' = <<>>)
        /\ failCount > 0 => npmRuns = <<>> ]_vars

\* One entry was written and another failed; the supervisor hangs with the
\* tree changed.
C19_Witness ==
    /\ failCount > 0 /\ successCount > 0
    /\ pc \in HangStates /\ UnsafeFailure
    /\ tree # tree0

(***************************************************************************)
(* C17                                                                     *)
(***************************************************************************)
\* The path of a URL: what comes before its first "?".
PathOf(url) ==
    LET q == { i \in 1..Len(url) : url[i] = "?" } IN
    IF q = {} THEN url
    ELSE SubSeq(url, 1, (CHOOSE i \in q : \A j \in q : i <= j) - 1)

\* C17: a request is answered with status 200 and a body that begins with
\* the line [RELAUNCH] when its path is the status route, and with status
\* 503 and the advisory text for any other path.
C17_OnlyStatusRouteServed ==
    exchange.response.status # 0 =>
        IF PathOf(exchange.request) = <<StatusRoute>>
        THEN /\ exchange.response.status = 200
             /\ exchange.response.body[1] = "[RELAUNCH]"
        ELSE /\ exchange.response.status = 503
             /\ exchange.response.body = Advisory

(***************************************************************************)
(* C20                                                                     *)
(***************************************************************************)
\* C20: no two supervisors write, install or build at the same time, and
\* none spawns the server while another still writes, installs or builds.
C20_OneSessionMaterializes ==
    \A i, j \in Supervisors :
        (i # j /\ sup[i].phase = "write") => sup[j].phase \notin {"write", "relaunch"}

(***************************************************************************)
(* C21.  The session log only grows: the log lines that a status response  *)
(* of the session returned are all among the lines that every later        *)
(* status response returns, so the last response holds every line of       *)
(* every response before it.                                               *)
(***************************************************************************)
LinesOf(content) == {content[k] : k \in DOMAIN content}

C21_LogOnlyGrows ==
    \A i, j \in DOMAIN served :
        i < j => LinesOf(served[i]) \subseteq LinesOf(served[j])

\* Two status responses with log lines between them: the later one has
\* a line the earlier one lacks.
C21_Witness ==
    /\ Len(served) >= 2
    /\ served[1] # <<>>
    /\ LinesOf(served[2]) # LinesOf(served[1])

(***************************************************************************)
(* The restarted server's status route.  The server that the session       *)
(* spawned answers /admin/hot-reload-status from the session's log file,   *)
(* under a prefix line of its own.  The session may still be logging.      *)
(***************************************************************************)
ServerStatusRoute == "/admin/hot-reload-status"

\* The prefix of the supervisor's own listener kept.
ServerStatusHandlerMutant(content) ==
    [status |-> 200, body |-> <<"[RELAUNCH]">> \o content]
ServerStatusHandler(content) ==
    [status |-> 200, body |-> <<"[SERVER]">> \o content]

\* A status request to the server that the session started.
ServerServesStatus ==
    /\ spawned # <<>>
    /\ exchange' = [request |-> <<ServerStatusRoute>>, readable |-> TRUE,
                    response |-> ServerStatusHandler(log)]
    /\ UNCHANGED <<served, sessionsV, endpoint, toolsV, mainV>>

HandoffNext == Next \/ ServerServesStatus

HandoffSpec == Init /\ [][HandoffNext]_vars

(***************************************************************************)
(* C22.  After a session restarted a server, by a successful deploy or by  *)
(* a safe failure, each answer of that server on its status route is the   *)
(* line "[SERVER]" followed by exactly the lines of the session's log      *)
(* file, the line that announces the start of the server among them.       *)
(***************************************************************************)
C22_ServerServesSessionLog ==
    [][ exchange' # exchange =>
          /\ exchange'.response.status = 200
          /\ exchange'.response.body[1] = "[SERVER]"
          /\ Tail(exchange'.response.body) = log'
          /\ InLog("Starting server...")' ]_vars

\* The server restarted by a safe failure has answered with the log of
\* the failed session.
C22_Witness ==
    /\ exchange.response.status = 200
    /\ CaughtFailure
    /\ ~UnsafeFailure
    /\ Len(exchange.response.body) > 1

(***************************************************************************)
(* The transfer endpoint, POST /admin/hot-reload of the serving            *)
(* application server.  A request carries the package bytes as received    *)
(* and the digest its sender declared in X-Content-MD5; the endpoint       *)
(* passes it through its gates in order, stages the bytes, and on          *)
(* admission hands off to a supervisor and shuts its process down.         *)
(***************************************************************************)
\* Bodies that reach the endpoint: an archive of one file as the package
\* builder writes it, intact or damaged on the way, or a single record.
Uploads ==
    { <<r, CentralRecord>> : r \in FileRecords } \cup { <<r>> : r \in Records }

\* quickDeploy declares the digest of what it sent; what arrives may differ.
Requests == [auth : BOOLEAN, test : BOOLEAN, bytes : Uploads, digest : Digests]

\* The in-memory decode of the whole archive (step 5).
DecodesFully(buf) == WellFormed(buf)

\* The digest gate left out.
AdmissionGatesMutant(req, enabled) ==
    IF ~req.auth THEN "AuthorizationError"
    ELSE IF ~enabled /\ ~req.test THEN "PolicyError"
    ELSE IF ~DecodesFully(req.bytes) THEN "PackageCorruptError"
    ELSE "ok"

\* Steps 1, 2, 3 and 5: the first gate that rejects the request, or "ok".
AdmissionGates(req, enabled) ==
    IF ~req.auth THEN "AuthorizationError"
    ELSE IF ~enabled /\ ~req.test THEN "PolicyError"
    ELSE IF Md5(req.bytes) # req.digest THEN "IntegrityError"
    ELSE IF ~DecodesFully(req.bytes) THEN "PackageCorruptError"
    ELSE "ok"

\* The body written to the staging file as it arrives, before any gate.
ReachesStagingMutant(result) == TRUE
\* Step 4 comes after the digest gate and before the decode.
ReachesStaging(result) == result \in {"PackageCorruptError", "ok"}

\* One request handled from its arrival to its response.  On admission a
\* supervisor is spawned detached (step 6) and the server begins to shut
\* down (step 7).
Admission ==
    /\ server.alive /\ ~server.handedOff
    /\ \E req \in Requests :
         LET result == AdmissionGates(req, endpoint.enabled) IN
         /\ endpoint' = [endpoint EXCEPT
                            !.request = req,
                            !.result = result,
                            !.staging = IF ReachesStaging(result)
                                        THEN <<req.bytes>> ELSE @]
         /\ IF result = "ok"
            THEN /\ \E i \in Supervisors :
                      /\ sup[i].phase = "none"
                      /\ \A j \in Supervisors : j < i => sup[j].phase # "none"
                      /\ sup' = [sup EXCEPT ![i].phase = "await"]
                 /\ server' = [server EXCEPT !.handedOff = TRUE]
            ELSE UNCHANGED <<server, sup>>
    /\ UNCHANGED <<handlerV, toolsV, mainV>>

\* A server is serving, hot reload enabled by its configuration or not,
\* an earlier package in the staging file or none.
AdmissionInit ==
    /\ NoSession
    /\ exchange = NoExchange
    /\ served = <<>>
    /\ server = [alive |-> TRUE, pid |-> "valid", handedOff |-> FALSE]
    /\ sup = NoSessions
    /\ \E enabled \in BOOLEAN, staged \in {<<>>, << <<CentralRecord>> >>} :
          endpoint = [NoEndpoint EXCEPT !.enabled = enabled, !.staging = staged]
    /\ build = NoBuild
    /\ testsvr = NoTestsvr
    /\ deploy = NoDeploy
    /\ destPaths = NoPaths

AdmissionNext == Admission \/ ServerTerminates

AdmissionSpec == AdmissionInit /\ [][AdmissionNext]_vars

(***************************************************************************)
(* C23.  The digest gate.  Whatever bytes B arrive and whatever digest D   *)
(* other than md5(B) is declared, the admission fails, no supervisor is    *)
(* spawned, the server is not shut down and the staging file, which the    *)
(* decode and the supervisor read, keeps its earlier content; the error    *)
(* is the integrity error whenever the request got past the authorization  *)
(* and policy gates that precede the digest gate.                          *)
(***************************************************************************)
DigestMismatch(req) == Md5(req.bytes) # req.digest
PassesEarlierGates(req, enabled) == req.auth /\ (enabled \/ req.test)

C23_DigestGate ==
    [][ (endpoint' # endpoint /\ DigestMismatch(endpoint'.request)) =>
          /\ endpoint'.result \in {"AuthorizationError", "PolicyError", "IntegrityError"}
          /\ PassesEarlierGates(endpoint'.request, endpoint.enabled)
                => endpoint'.result = "IntegrityError"
          /\ sup' = sup
          /\ server' = server
          /\ endpoint'.staging = endpoint.staging ]_vars

\* An authorized request with a wrong digest was rejected while an earlier
\* package was staged.
C23_Witness ==
    /\ endpoint.result = "IntegrityError"
    /\ endpoint.request.auth
    /\ DecodesFully(endpoint.request.bytes)
    /\ endpoint.staging # <<>>

(***************************************************************************)
(* C24.  An admission that fails at a gate (authorization, policy, digest  *)
(* or corrupt package) leaves the system as it was: the managed tree is    *)
(* the same before and after, the serving process is not shut down, now    *)
(* or later, no supervisor is spawned, and after an authorization or       *)
(* policy failure the staging file holds what it held before.              *)
(***************************************************************************)
EarlyGates == {"AuthorizationError", "PolicyError"}
FailedAdmission == endpoint' # endpoint /\ endpoint'.result # "ok"

C24_FailedAdmissionChangesNothing ==
    [][ /\ FailedAdmission =>
              /\ tree' = tree
              /\ server' = server
              /\ sup' = sup
              /\ endpoint'.result \in EarlyGates
                    => endpoint'.staging = endpoint.staging
        /\ ~server'.alive => sup' # NoSessions ]_vars

\* A request was turned away by the policy gate; the server serves on and
\* the package staged earlier is still there.
C24_Witness ==
    /\ endpoint.result = "PolicyError"
    /\ endpoint.request.bytes # <<CentralRecord>>
    /\ endpoint.staging = << <<CentralRecord>> >>
    /\ server.alive
    /\ sup = NoSessions

(***************************************************************************)
(* The package builder, createDeploymentZip(sourceRoot).  The repository   *)
(* has two: scripts/create-deploy-zip.ts on the archiver library, which    *)
(* deploy.js imports, and scripts/create-quick-deploy-zip.ts on adm-zip,   *)
(* which the hot-reload test imports.  A path is a sequence of segments,   *)
(* relative to the source root; a package is the sequence of its entry     *)
(* names, every entry compressed from the file of that name.               *)
(***************************************************************************)
SourceSubtrees == { <<"server", "src">>, <<"client", "src">>, <<"scripts">> }

\* The files added one by one after the subtrees, in the order of the calls.
RequiredOrder ==
    << <<"package.json">>, <<"package-lock.json">>, <<"tsconfig.base.json">>,
       <<"server", "package.json">>, <<"server", "tsconfig.json">>,
       <<"client", "package.json">>, <<"client", "tsconfig.json">>,
       <<"client", "index.html">>, <<"client", "vite.config.ts">>,
       <<"dataConfig", "prompt-template.md">> >>
RequiredFiles == { RequiredOrder[k] : k \in DOMAIN RequiredOrder }

\* Other files a source tree may hold.
SourcePaths ==
    { <<"server", "src", "a.ts">>, <<"server", "src", "notes.md">>,
      <<"client", "src", "icons", "c.svg">>, <<"client", "src", "TEST_d.ts">>,
      <<"scripts", "TEST_60001", "b.ts">>, <<"scripts", "package.json">>,
      <<"dataTrips", "e.ts">> }

\* Every path of the model, ordered by name as adm-zip orders its entries.
SortedPaths ==
    << <<"client", "index.html">>, <<"client", "package.json">>,
       <<"client", "src", "icons", "c.svg">>, <<"client", "src", "TEST_d.ts">>,
       <<"client", "tsconfig.json">>, <<"client", "vite.config.ts">>,
       <<"dataConfig", "prompt-template.md">>, <<"dataTrips", "e.ts">>,
       <<"package-lock.json">>, <<"package.json">>,
       <<"scripts", "package.json">>, <<"scripts", "TEST_60001", "b.ts">>,
       <<"server", "package.json">>, <<"server", "src", "a.ts">>,
       <<"server", "src", "notes.md">>, <<"server", "tsconfig.json">>,
       <<"tsconfig.base.json">> >>

\* Where the source root lies: a checkout, or the copy of the code in the
\* directory of an isolated test server.
SourceRoots == { <<"travelr">>, <<"travelr", "testDirs", "TEST_60001">> }

allowedExtensions == {".ts", ".svg"}
allowedFiles == {"package.json", "package-lock.json", "tsconfig.json", "index.html"}

basename(path) == path[Len(path)]
extname(name) ==
    IF name \in {"a.ts", "b.ts", "e.ts", "TEST_d.ts", "vite.config.ts"} THEN ".ts"
    ELSE IF name = "c.svg" THEN ".svg"
    ELSE IF name \in {"notes.md", "prompt-template.md"} THEN ".md"
    ELSE IF name = "index.html" THEN ".html"
    ELSE ".json"

\* name.startsWith("TEST_")
StartsWithTEST(name) == name \in {"TEST_60001", "TEST_d.ts"}
\* /[/\\]TEST_/ on a path: a segment after a separator begins with TEST_.
HasTESTSegment(path) == \E k \in DOMAIN path : StartsWithTEST(path[k])

Allowed(name) == extname(name) \in allowedExtensions \/ name \in allowedFiles

Under(path, dir) == Len(path) > Len(dir) /\ SubSeq(path, 1, Len(dir)) = dir
RelativeTo(path, dir) == SubSeq(path, Len(dir) + 1, Len(path))

\* create-quick-deploy-zip.ts: shouldInclude is given path.join(dirPath,
\* entry.name), the full path below the resolved source root.
shouldInclude(fullPath) ==
    IF HasTESTSegment(fullPath) THEN FALSE ELSE Allowed(basename(fullPath))

\* addDirectory: the walk does not enter a directory named TEST_*.
addDirectory(root, dir, srcTree) ==
    { path \in srcTree :
        /\ Under(path, dir)
        /\ \A k \in (Len(dir) + 1)..(Len(path) - 1) : ~StartsWithTEST(path[k])
        /\ shouldInclude(root \o path) }

\* create-deploy-zip.ts: fileFilter is given entry.name, the path relative
\* to the directory that archive.directory walks.
fileFilter(name) ==
    IF HasTESTSegment(name) THEN FALSE ELSE Allowed(basename(name))

directory(dir, srcTree) ==
    { path \in srcTree : Under(path, dir) /\ fileFilter(RelativeTo(path, dir)) }

InOrder(order, paths) == SelectSeq(order, LAMBDA path : path \in paths)
Orders(paths) ==
    { o \in [1..Cardinality(paths) -> paths] :
        \A j, k \in DOMAIN o : j # k => o[j] # o[k] }

NoPackage == [ok |-> FALSE, package |-> <<>>]

\* zip.addLocalFile throws when the file does not exist; writeZip is then
\* not reached.  writeZip writes the entries ordered by name.
AdmZipBuild(root, srcTree) ==
    IF ~(RequiredFiles \subseteq srcTree) THEN NoPackage
    ELSE [ok |-> TRUE,
          package |-> InOrder(SortedPaths,
                              UNION { addDirectory(root, dir, srcTree) : dir \in SourceSubtrees }
                                \cup RequiredFiles)]

\* The three archive.directory walks run concurrently and append their
\* matches as they find them; archive.file of a file that does not exist
\* raises the 'warning' event, which has no listener, and the entry is left
\* out.  Of the orders the library can produce the model keeps those of the
\* walks' matches, followed by the single files in the order of the calls.
ArchiverBuilds(srcTree) ==
    { [ok |-> TRUE, package |-> o \o InOrder(RequiredOrder, srcTree)] :
        o \in Orders(UNION { directory(dir, srcTree) : dir \in SourceSubtrees }) }

BuildFrame == UNCHANGED <<handlerV, sessionsV, endpoint, testsvr, deploy, destPaths, mainV>>

BuildWithAdmZip ==
    /\ build.variant = "adm-zip"
    /\ Len(build.runs) < MaxBuilds
    /\ build' = [build EXCEPT !.runs = Append(@, AdmZipBuild(build.root, build.tree))]
    /\ BuildFrame

BuildWithArchiver ==
    /\ build.variant = "archiver"
    /\ Len(build.runs) < MaxBuilds
    /\ \E run \in ArchiverBuilds(build.tree) :
         build' = [build EXCEPT !.runs = Append(@, run)]
    /\ BuildFrame

\* A source tree with all the single files but at most one, and any of the
\* other files; it stays as it is while the builder is run.
BuildInit ==
    /\ NoSession
    /\ exchange = NoExchange
    /\ served = <<>>
    /\ server = NoServer
    /\ sup = NoSessions
    /\ endpoint = NoEndpoint
    /\ \E variant \in {"adm-zip", "archiver"}, root \in SourceRoots,
          files \in SUBSET SourcePaths, missing \in SUBSET RequiredFiles :
          /\ Cardinality(missing) <= 1
          /\ build = [variant |-> variant, root |-> root,
                      tree |-> files \cup (RequiredFiles \ missing), runs |-> <<>>]
    /\ testsvr = NoTestsvr
    /\ deploy = NoDeploy
    /\ destPaths = NoPaths

BuildNext == BuildWithAdmZip \/ BuildWithArchiver

BuildSpec == BuildInit /\ [][BuildNext]_vars

(***************************************************************************)
(* C25.  A built package contains exactly the files under server/src,      *)
(* client/src and scripts whose extension or name is in the allow-list     *)
(* and whose path relative to the source root has no TEST_ segment,        *)
(* together with the fixed list of manifest and config files; no file on   *)
(* a TEST_ path is in it.                                                  *)
(***************************************************************************)
EntryNames(run) == { run.package[k] : k \in DOMAIN run.package }

ExpectedContent(srcTree) ==
    { path \in srcTree :
        /\ \E dir \in SourceSubtrees : Under(path, dir)
        /\ Allowed(basename(path))
        /\ ~HasTESTSegment(path) }
    \cup RequiredFiles

C25_PackageContent ==
    \A k \in DOMAIN build.runs :
        build.runs[k].ok =>
            /\ EntryNames(build.runs[k]) = ExpectedContent(build.tree)
            /\ \A path \in EntryNames(build.runs[k]) : ~HasTESTSegment(path)

(***************************************************************************)
(* C26.  When one of the manifest or config files that the builder adds    *)
(* by name is missing from the source tree, the build aborts with an       *)
(* error: no run ends with a package, so none ends with a package that     *)
(* leaves the file out.                                                    *)
(***************************************************************************)
C26_MissingFileAborts ==
    \A k \in DOMAIN build.runs :
        ~(RequiredFiles \subseteq build.tree) => ~build.runs[k].ok

(***************************************************************************)
(* C27.  Two runs of the builder on an unchanged source tree yield the     *)
(* same package, byte for byte (the same entries in the same order,        *)
(* compressed alike), and so the same digest.                              *)
(***************************************************************************)
C27_BuildIsDeterministic ==
    \A j, k \in DOMAIN build.runs : build.runs[j] = build.runs[k]

(***************************************************************************)
(* testsvr: isolated test servers.  For every port the state holds the     *)
(* spawn run that created testDirs/TEST_<port> (0: no directory), the      *)
(* process id in its server.pid (0: no file), and the process listening    *)
(* on the port (0: none).  A server process lives as long as it listens.   *)
(* last is what the -kill or -remove command that has just ended did and   *)
(* reported; the next step of a spawn run clears it.                       *)
(***************************************************************************)
\* The range test left out.
InRangeMutant(port) == TRUE
\* The test of the command dispatch and of killServer and removeServer.
InRange(port) == ~(port < PORT_MIN \/ port > PORT_MAX)

isPortInUse(ts, port) == ts.listener[port] # 0
getPidFromFile(ts, port) == ts.pidFile[port]
\* netstat: the process that listens on the port.
getPidFromPort(ts, port) == ts.listener[port]
\* process.kill(pid, 0) does not throw ESRCH.
ProcessExists(ts, pid) == \E p \in CommandPorts : ts.listener[p] = pid

\* The directory deleted along with the process.
DirAfterKillMutant(owner) == 1 - 1
\* killServer leaves TEST_<port> as it is.
DirAfterKill(owner) == owner

\* process.kill(pid, "SIGTERM") and the removal of the PID file.
Terminate(ts, port, pid) ==
    [ts EXCEPT !.listener = [p \in CommandPorts |-> IF @[p] = pid THEN 0 ELSE @[p]],
               !.pidFile[port] = 0,
               !.dir[port] = DirAfterKill(@)]

KillResult(ok, report, signalled, ts) ==
    [ok |-> ok, report |-> report, signalled |-> signalled, ts |-> ts]

\* killServer(port).  permitted: whether this user may signal a process
\* that is not a test server (EPERM otherwise).
killServer(ts, port, permitted) ==
    IF ~InRange(port) THEN KillResult(FALSE, "outside test range", 0, ts)
    ELSE
    LET dirExists == ts.dir[port] # 0
        pidFromFile == getPidFromFile(ts, port)
        pid == IF pidFromFile # 0 THEN pidFromFile ELSE getPidFromPort(ts, port)
    IN  IF ~dirExists /\ pidFromFile = 0
        THEN IF isPortInUse(ts, port)
             THEN KillResult(FALSE, "Refusing to kill", 0, ts)
             ELSE KillResult(TRUE, "No server running", 0, ts)
        ELSE IF pid = 0 THEN KillResult(TRUE, "No server running", 0, ts)
        ELSE IF ~ProcessExists(ts, pid)
             THEN KillResult(TRUE, "not running (stale PID)", 0,
                             [ts EXCEPT !.pidFile[port] = 0])
        ELSE IF pid = ForeignPid /\ ~permitted
             THEN KillResult(FALSE, "Failed to kill", 0, ts)
        ELSE KillResult(TRUE, "Killed", pid, Terminate(ts, port, pid))

\* removeServer(port): killServer, its result ignored, then fs.rmSync.
removeServer(ts, port, permitted) ==
    IF ~InRange(port)
    THEN [ok |-> FALSE, report |-> "outside test range", signalled |-> 0,
          deleted |-> FALSE, ts |-> ts]
    ELSE LET killed == killServer(ts, port, permitted) IN
         IF killed.ts.dir[port] # 0
         THEN [ok |-> TRUE, report |-> "Removed directory",
               signalled |-> killed.signalled, deleted |-> TRUE,
               ts |-> [killed.ts EXCEPT !.dir[port] = 0, !.pidFile[port] = 0]]
         ELSE [ok |-> TRUE, report |-> "Directory does not exist",
               signalled |-> killed.signalled, deleted |-> FALSE, ts |-> killed.ts]

Evidence(ts, port) == ts.dir[port] # 0 \/ ts.pidFile[port] # 0

TestsvrFrame == UNCHANGED <<handlerV, sessionsV, endpoint, build, deploy, destPaths, mainV>>

\* testsvr -kill <port>, from the dispatch to process.exit.
KillCommand ==
    /\ \E port \in CommandPorts, permitted \in BOOLEAN :
         LET done == IF InRange(port) THEN killServer(testsvr, port, permitted)
                     ELSE KillResult(FALSE, "Usage", 0, testsvr) IN
         testsvr' = [done.ts EXCEPT !.last =
                        [cmd |-> "kill", port |-> port,
                         exit |-> IF done.ok THEN 0 ELSE 1,
                         report |-> done.report, signalled |-> done.signalled,
                         deleted |-> done.ts.dir # testsvr.dir,
                         evidence |-> Evidence(testsvr, port),
                         inUse |-> isPortInUse(testsvr, port),
                         dirBefore |-> testsvr.dir[port],
                         dirAfter |-> done.ts.dir[port],
                         listenerAfter |-> done.ts.listener[port]]]
    /\ TestsvrFrame

\* testsvr -remove <port>.
RemoveCommand ==
    /\ \E port \in CommandPorts, permitted \in BOOLEAN :
         LET done == IF InRange(port) THEN removeServer(testsvr, port, permitted)
                     ELSE [ok |-> FALSE, report |-> "Usage", signalled |-> 0,
                           deleted |-> FALSE, ts |-> testsvr] IN
         testsvr' = [done.ts EXCEPT !.last =
                        [cmd |-> "remove", port |-> port,
                         exit |-> IF done.ok THEN 0 ELSE 1,
                         report |-> done.report, signalled |-> done.signalled,
                         deleted |-> done.deleted,
                         evidence |-> Evidence(testsvr, port),
                         inUse |-> isPortInUse(testsvr, port),
                         dirBefore |-> testsvr.dir[port],
                         dirAfter |-> done.ts.dir[port],
                         listenerAfter |-> done.ts.listener[port]]]
    /\ TestsvrFrame

\* findAvailablePort(): the first port of the range without a directory.
HasDir(ts, port) == port \in CommandPorts /\ ts.dir[port] # 0
findAvailablePort(ts) ==
    CHOOSE port \in PORT_MIN..PORT_MAX :
        /\ ~HasDir(ts, port)
        /\ \A q \in PORT_MIN..(port - 1) : HasDir(ts, q)

\* testsvr -spawn, run i: main() determines its port.
SpawnChoosePort(i) ==
    /\ testsvr.run[i].phase = "idle"
    /\ testsvr' = [testsvr EXCEPT
                      !.run[i] = [phase |-> "chosen", port |-> findAvailablePort(testsvr)],
                      !.last = NoCommand]
    /\ TestsvrFrame

\* createTestDirectory(port): a directory found there is deleted with all
\* it holds, then the directory is made.
SpawnCreateDirectory(i) ==
    /\ testsvr.run[i].phase = "chosen"
    /\ LET port == testsvr.run[i].port IN
       testsvr' = [testsvr EXCEPT !.run[i].phase = "created",
                                  !.dir[port] = i,
                                  !.pidFile[port] = 0,
                                  !.last = NoCommand]
    /\ TestsvrFrame

\* buildServer() and startServer(): a server process is started in the
\* test directory; it takes the port and records its process id, or ends
\* when the port is taken or the directory is gone.
SpawnStartServer(i) ==
    /\ testsvr.run[i].phase = "created"
    /\ LET port == testsvr.run[i].port IN
       IF testsvr.listener[port] = 0 /\ testsvr.dir[port] # 0
       THEN testsvr' = [testsvr EXCEPT !.run[i].phase = "started",
                                       !.listener[port] = i,
                                       !.pidFile[port] = i,
                                       !.last = NoCommand]
       ELSE testsvr' = [testsvr EXCEPT !.run[i].phase = "started",
                                       !.last = NoCommand]
    /\ TestsvrFrame

\* waitForReady(): a test server answers /ping on the port and the run
\* ends with READY <port>, or none does and the run ends with killServer.
SpawnFinish(i) ==
    /\ testsvr.run[i].phase = "started"
    /\ LET port == testsvr.run[i].port IN
       IF testsvr.listener[port] \in SpawnRuns
       THEN testsvr' = [testsvr EXCEPT !.run[i] = [phase |-> "exited", port |-> 0],
                                       !.last = NoCommand]
       ELSE \E permitted \in BOOLEAN :
              testsvr' = [killServer(testsvr, port, permitted).ts EXCEPT
                             !.run[i] = [phase |-> "exited", port |-> 0],
                             !.last = NoCommand]
    /\ TestsvrFrame

\* No test server yet; a process of another kind may listen on a port.
TestsvrInit ==
    /\ NoSession
    /\ exchange = NoExchange
    /\ served = <<>>
    /\ server = NoServer
    /\ sup = NoSessions
    /\ endpoint = NoEndpoint
    /\ build = NoBuild
    /\ deploy = NoDeploy
    /\ destPaths = NoPaths
    /\ \E taken \in SUBSET {PORT_MIN} :
          testsvr = [NoTestsvr EXCEPT
                        !.listener = [p \in CommandPorts |->
                                        IF p \in taken THEN ForeignPid ELSE 0]]

TestsvrNext ==
    \/ KillCommand
    \/ RemoveCommand
    \/ \E i \in SpawnRuns : SpawnChoosePort(i)
    \/ \E i \in SpawnRuns : SpawnCreateDirectory(i)
    \/ \E i \in SpawnRuns : SpawnStartServer(i)
    \/ \E i \in SpawnRuns : SpawnFinish(i)

TestsvrSpec == TestsvrInit /\ [][TestsvrNext]_vars

(***************************************************************************)
(* C28.  testsvr -kill and -remove given a port outside 60000-60999 exit   *)
(* with a non-zero status and neither signal a process nor delete a        *)
(* directory; a process is signalled only when TEST_<port> or its          *)
(* server.pid existed; -kill with neither present refuses, with a          *)
(* non-zero status, when the port is in use, and reports "No server        *)
(* running", with status 0, when it is not.                                *)
(***************************************************************************)
C28_KillAndRemoveAreGuarded ==
    LET last == testsvr.last IN
    last.cmd # "none" =>
        /\ ~(PORT_MIN <= last.port /\ last.port <= PORT_MAX) =>
               last.exit # 0 /\ last.signalled = 0 /\ ~last.deleted
        /\ last.signalled # 0 => last.evidence
        /\ (last.cmd = "kill" /\ PORT_MIN <= last.port /\ last.port <= PORT_MAX
              /\ ~last.evidence) =>
               IF last.inUse
               THEN last.exit # 0 /\ last.report = "Refusing to kill" /\ last.signalled = 0
               ELSE last.exit = 0 /\ last.report = "No server running"

\* -kill was refused for a port in use without a test directory, and
\* another command was turned away for a port outside the range.
C28_Witness ==
    /\ testsvr.last.cmd = "kill"
    /\ testsvr.last.report = "Refusing to kill"
    /\ \E p \in CommandPorts : testsvr.dir[p] # 0

InProgress(i) == testsvr.run[i].phase \in {"chosen", "created", "started"}
C30_ConcurrentSpawnsShareNothing ==
    /\ \A i, j \in SpawnRuns :
         (i # j /\ InProgress(i) /\ InProgress(j)) =>
             testsvr.run[i].port # testsvr.run[j].port
    /\ \A i \in SpawnRuns :
         testsvr.run[i].phase \in {"created", "started"} =>
             testsvr.dir[testsvr.run[i].port] \in {0, i}

(***************************************************************************)
(* C31                                                                     *)
(***************************************************************************)
\* The steps the supervisor process takes by itself: those of main(), and
\* the events, callbacks and timers of its event loop.
SupervisorStep ==
    \/ ParseArgs
    \/ WaitForServerShutdown
    \/ StartStatusStep
    \/ ListenResult
    \/ ParseStep
    \/ DiffStep
    \/ BeginWrite
    \/ WriteEntry
    \/ Tally
    \/ InstallStep
    \/ BuildStep
    \/ StopStatusServer
    \/ CloseCallback
    \/ CloseTimer
    \/ SpawnServer
    \/ RestartCheck
    \/ Complete
    \/ CatchBlock
    \/ SafeExit
    \/ LoopDrained

\* The supervisor has ended, has returned from main(), or is in one of the
\* terminal hang states.
AtRest == exited \/ pc \in {"returned"} \cup HangStates

\* C31: every wait of the supervisor ends by itself: as long as the
\* supervisor has not ended, returned from main() or reached a terminal
\* hang state, it has a step to take, so that it remains forever in no
\* other state.
C31_WaitsAreBounded == AtRest \/ ENABLED SupervisorStep

(***************************************************************************)
(* C32                                                                     *)
(***************************************************************************)
\* C32: stopStatusServer called with no listener resolves in that step;
\* while it has not resolved its 2 s timer is pending, whatever connections
\* are open, so that it resolves when the timer fires at the latest; and
\* when it has resolved no status server listens and the variable
\* statusServer is null.
C32_StopAlwaysCompletes ==
    /\ [](pc = "launch_stopping" => closeTimer)
    /\ [](pc = "launch_spawn" => statusServer = 0 /\ ~ListenerUp)
    /\ [][(pc = "launch_stop" /\ statusServer = 0)
            => pc' \in {"launch_stop", "launch_spawn"}]_vars

\* The timer has resolved the stop of a listener whose connection stayed
\* open: the callback of close() is still to come.
C32_Witness ==
    /\ pc = "launch_spawn"
    /\ closeCb # 0
    /\ ~closeTimer
    /\ statusServer = 0
    /\ servers[closeCb] = "stopped"

(***************************************************************************)
(* C33                                                                     *)
(***************************************************************************)
\* The lines of the session log that contain the literal ERROR or FATAL.
ErrorLines ==
    {"ERROR: Server did not shut down in time", "ERROR: write failed", "FATAL ERROR"}

\* checkLogFile: the lines it collects as errors.
checkLogFile(content) == { i \in 1..Len(content) : content[i] \in ErrorLines }

\* Every step of the session succeeded: the server was spawned by the try
\* block of main().
Succeeded == ctx = "try" /\ spawned # <<>>

\* C33: when a session that was given its arguments is over, its log has a
\* line with ERROR or FATAL if and only if not every step succeeded.
C33_ErrorLineIffFailed ==
    (SessionOver /\ ArgsComplete(args)) =>
        (checkLogFile(log) # {} <=> ~Succeeded)

(***************************************************************************)
(* deploy.js, quickDeploy: after the hot-reload request it waits for the   *)
(* server to answer /ping.  Times are in milliseconds; deploy.elapsed is   *)
(* Date.now() - startTime.                                                 *)
(***************************************************************************)
maxWaitMs == 120000
pollInterval == 10000
shutdownWaitMs == 5000
pingTimeoutMs == 3000

\* What a request of /ping ends with: the body "pong" with status 200,
\* another answer (of the status server: 503), or an error or the timeout.
PingAnswers == {"pong", "other", "error"}
\* The time a request of /ping takes: from none to the timeout.
PingTimes == {0, pingTimeoutMs}

\* Every answer taken for the server being back.
ServerIsBackMutant(answer) == answer \in {"pong", "other"}

\* pingResponse.ok and the body, trimmed, is "pong".
ServerIsBack(answer) == answer = "pong"

DeployFrame == UNCHANGED <<handlerV, sessionsV, endpoint, build, testsvr, destPaths, mainV>>

\* Step 3: the hot-reload request and the server's answer to it.
SendHotReload ==
    /\ deploy.phase = "request"
    /\ \E admitted \in BOOLEAN :
         deploy' = IF ~admitted
                   THEN [deploy EXCEPT !.phase = "done", !.report = "Hot reload failed"]
                   ELSE IF deploy.test
                   THEN [deploy EXCEPT !.phase = "done", !.report = "Quick deploy test complete"]
                   ELSE [deploy EXCEPT !.phase = "shutdown_wait"]
    /\ DeployFrame

\* Step 4: startTime is taken, then 5 s are waited for the shutdown.
WaitForShutdown ==
    /\ deploy.phase = "shutdown_wait"
    /\ deploy' = [deploy EXCEPT !.phase = "poll", !.elapsed = shutdownWaitMs]
    /\ DeployFrame

\* One pass of the polling loop, and the throw when the loop has ended.
PollPing ==
    /\ deploy.phase = "poll"
    /\ IF deploy.elapsed < maxWaitMs
       THEN \E answer \in PingAnswers, took \in PingTimes :
              deploy' = IF ServerIsBack(answer)
                        THEN [deploy EXCEPT !.phase = "done", !.answer = answer,
                                            !.elapsed = @ + took,
                                            !.report = "Quick deploy complete"]
                        ELSE [deploy EXCEPT !.answer = answer,
                                            !.elapsed = @ + took + pollInterval]
       ELSE deploy' = [deploy EXCEPT !.phase = "done",
                                     !.report = "Timeout waiting for server to restart"]
    /\ DeployFrame

DeployInit ==
    /\ NoSession
    /\ exchange = NoExchange
    /\ served = <<>>
    /\ server = NoServer
    /\ sup = NoSessions
    /\ endpoint = NoEndpoint
    /\ build = NoBuild
    /\ testsvr = NoTestsvr
    /\ destPaths = NoPaths
    /\ \E test \in BOOLEAN : deploy = [NoDeploy EXCEPT !.phase = "request", !.test = test]

DeployNext == SendHotReload \/ WaitForShutdown \/ PollPing

DeploySpec == DeployInit /\ [][DeployNext]_vars

(***************************************************************************)
(* C34                                                                     *)
(***************************************************************************)
\* C34: a quick deploy that is not a test and whose request was admitted
\* reports "Quick deploy complete" only when its last /ping was answered
\* with pong, reports the timeout when the 2 minutes have passed and the
\* last /ping was not answered with pong, and is never in its polling
\* loop later than 2 minutes plus one pass of the loop after startTime.
C34_PingDecidesTheReport ==
    /\ deploy.report = "Quick deploy complete" => deploy.answer = "pong"
    /\ deploy.report = "Timeout waiting for server to restart" =>
           deploy.elapsed >= maxWaitMs /\ deploy.answer # "pong"
    /\ (deploy.phase = "done" /\ deploy.answer # "none") =>
           deploy.report \in {"Quick deploy complete", "Timeout waiting for server to restart"}
    /\ deploy.elapsed < maxWaitMs + pingTimeoutMs + pollInterval

\* The timeout was reported after the status server had answered /ping.
C34_Witness ==
    /\ deploy.report = "Timeout waiting for server to restart"
    /\ deploy.answer = "other"

(***************************************************************************)
(* C35                                                                     *)
(***************************************************************************)
\* launchServerWithRecovery has restarted the status server after a failed
\* spawn; the server object it created is the last one.
Restarted == pc \in {"restart_listen", "restart_check", "hang_status", "hang_nostatus"}
NewListener == Len(servers)

\* C35: once the status server has been restarted after a failed spawn,
\* the variable statusServer, when it holds the new server, keeps it as
\* long as the process runs (unless the new server's own listen fails), and
\* the firing of the 2 s timer of the earlier stop closes no connection of
\* the new server.
C35_LeftoversSpareNewListener ==
    [][(Restarted /\ ~exited') =>
         /\ statusServer = NewListener =>
               statusServer' = NewListener \/ servers'[NewListener] = "errored"
         /\ (closeTimer /\ ~closeTimer' /\ NewListener \in conns) =>
               NewListener \in conns']_vars

(***************************************************************************)
(* C36                                                                     *)
(***************************************************************************)
\* C36: in a session spawn("npm", ["start"]) is called at most once, and
\* at most one server is started.
C36_SpawnAttemptedOnce == spawnAttempts <= 1 /\ Len(spawned) <= 1

(***************************************************************************)
(* C37                                                                     *)
(***************************************************************************)
\* C37: when the write loop is left and the tally is logged, every decoded
\* entry was counted once, as written or as failed, and in a production
\* session every entry was handed to writeFileVerified, in the package's
\* order; main() then goes to its catch block if failCount > 0 and to the
\* install step if not.
C37_EveryEntryAttempted ==
    [][(pc = "write" /\ pc' # "write") =>
         /\ successCount + failCount = Len(entries)
         /\ ~args.test => wrote = [k \in 1..Len(entries) |-> entries[k].fileName]
         /\ pc' = IF failCount > 0 THEN "catch" ELSE "install"]_vars

\* The tally after a failed and a successful write of a package of two.
C37_Witness ==
    /\ pc = "catch"
    /\ Len(entries) = 2
    /\ failCount = 1
    /\ successCount = 1
    /\ Len(wrote) = 2
    /\ InLog("Wrote files")

(***************************************************************************)
(* C38                                                                     *)
(***************************************************************************)
\* C38: waitForServerShutdown returns true, and main() goes on to its
\* second step, only when server.pid is absent or holds the id of a process
\* that does not exist; not when its content cannot be parsed, and not when
\* the probe fails although the process exists.
C38_ShutdownProvenBeforeProceeding ==
    [][(pc = "wait_shutdown" /\ pc' = "status_start") =>
         \/ pidFile = "absent"
         \/ pidFile = "valid" /\ ~oldAlive]_vars

(***************************************************************************)
(* The destination paths of the write loop.  A path is the sequence of its *)
(* segments below the root of the file system; an entry name is a sequence *)
(* of segments, with or without a leading separator.                       *)
(***************************************************************************)
\* process.cwd() of the supervisor: /app.
ROOT == <<"app">>

Segments == {"a.ts", "server", ".."}
\* The names of file entries: the last segment names the file.
EntryFileNames ==
    { [absolute |-> abs, segs |-> segs] :
        abs \in BOOLEAN,
        segs \in { q \in SeqsUpTo(Segments, MaxRecords) : q # <<>> /\ q[Len(q)] # ".." } }

\* path.normalize of an absolute path: a ".." segment takes the segment
\* before it away, and nothing at the root of the file system.
RECURSIVE normalize(_, _)
normalize(done, rest) ==
    IF rest = <<>> THEN done
    ELSE IF Head(rest) = ".."
         THEN normalize(IF done = <<>> THEN <<>> ELSE SubSeq(done, 1, Len(done) - 1),
                        Tail(rest))
         ELSE normalize(Append(done, Head(rest)), Tail(rest))

\* path.join(ROOT, entry.fileName): the two are joined with a separator
\* and normalized; a separator at the head of the name adds nothing.
pathJoin(root, name) == normalize(<<>>, root \o name.segs)

\* The path is the root or lies below it.
Inside(root, path) ==
    Len(path) >= Len(root) /\ SubSeq(path, 1, Len(root)) = root

PathsFrame == UNCHANGED <<handlerV, sessionsV, endpoint, build, testsvr, deploy, mainV>>

\* One pass of the write loop: destPath, and writeFileVerified(destPath),
\* which makes the directories above it and writes the file.
WriteDestination ==
    /\ destPaths.next <= Len(destPaths.names)
    /\ destPaths' = [destPaths EXCEPT
                    !.next = @ + 1,
                    !.written = @ \cup {pathJoin(ROOT, destPaths.names[destPaths.next])}]
    /\ PathsFrame

\* The entry names of a verified package: any names.
PathsInit ==
    /\ NoSession
    /\ exchange = NoExchange
    /\ served = <<>>
    /\ server = NoServer
    /\ sup = NoSessions
    /\ endpoint = NoEndpoint
    /\ build = NoBuild
    /\ testsvr = NoTestsvr
    /\ deploy = NoDeploy
    /\ \E names \in SeqsUpTo(EntryFileNames, MaxRecords) :
          destPaths = [NoPaths EXCEPT !.names = names]

PathsNext == WriteDestination

PathsSpec == PathsInit /\ [][PathsNext]_vars

(***************************************************************************)
(* C39                                                                     *)
(***************************************************************************)
\* C39: every path the write loop has written is the supervisor's cwd or
\* lies below it, whatever the entry names are.
C39_WritesStayInsideRoot == \A path \in destPaths.written : Inside(ROOT, path)

(***************************************************************************)
(* C40                                                                     *)
(***************************************************************************)
\* C40: the staged package is on disk or not as it was when the session
\* began, except that it is deleted by the step that follows the spawn of
\* the server by the try block of main(), in production and in test mode.
C40_ZipDeletedOnlyOnSuccess ==
    [][(zipExists' # zipExists) =>
         (~zipExists' /\ pc = "complete" /\ Succeeded)]_vars

\* A test-mode session has spawned the server and deleted the package it
\* had read.
C40_Witness ==
    /\ args.test
    /\ zipRead.read
    /\ ~zipExists
    /\ pc = "returned"
    /\ Succeeded

====
